---- MODULE Spec2Model ----
(***************************************************************************)
(* Model of the room-session and image-synchronisation server of the       *)
(* photo guessing game (src/src/lib/game-server.js).                       *)
(*                                                                         *)
(* Room objects live in `heap` (a JavaScript object is identified by its   *)
(* reference, here its index in the heap); `rooms` is the Map from room    *)
(* code to room reference, kept in insertion order as the Map keeps it.    *)
(* Timers hold what their closures capture: the grace timer a room code,   *)
(* a player and a socket id, the round-advance timer a room reference.     *)
(* `out` holds the events the last handler or timer emitted, in order.     *)
(***************************************************************************)
EXTENDS Integers, Sequences, FiniteSets, TLC

VARIABLES
  heap,           \* Seq of room objects, indexed by reference
  rooms,          \* the registry: Seq of [id |-> code, ref |-> reference]
  nextPid,        \* number of player ids handed out (uuidv4 is fresh)
  nextSock,       \* number of connections accepted (socket ids are fresh)
  connected,      \* the socket ids whose connection is alive
  graceTimers,    \* armed disconnect timers, in arming order
  advanceTimers,  \* armed round-advance timers, in arming order
  syncEmitted,    \* per room reference: sync-complete broadcasts this game
  batchTimers,    \* armed batch timers of startImageSync, in arming order
  lim,            \* the limits of the scenario being explored (never change)
  crashed,        \* an uncaught exception ended the process
  op,             \* the handler or timer that ran last
  out             \* the events it emitted, in order

vars == <<heap, rooms, nextPid, nextSock, connected, graceTimers,
          advanceTimers, syncEmitted, batchTimers, lim, crashed, op, out>>

-----------------------------------------------------------------------------
(* Bounds of the exploration *)

MaxPlayers == 2      \* player ids handed out in one run of Spec
MaxSockets == 2      \* connections accepted in one run of Spec
MaxRooms == 1        \* room objects created in one run
SessionPlayers == 3  \* player ids handed out in one run of SpecSession
SessionSockets == 4  \* connections accepted in one run of SpecSession
RoundPlayers == 3    \* players of the game SpecRound plays
DeckPlayers == 3     \* players of the game SpecDeck prepares
DeckSet == 2         \* images each of them submits
MaxArmed == 2        \* round-advance timers pending at once
ScaledSet == 1       \* stand-in for ReadyCount in the scaled specification
RandomSteps == 2     \* distinct values Math.random() returns
MaxBatch == 2        \* largest batch index a client sends
MaxScored == 3       \* a score stops growing at MaxScored * PointsPerGuess
AgainPlayers == 2    \* players of the game with repeated guesses
CodeRooms == 2       \* rooms created while codes are drawn
CodePlayers == 2     \* players and connections while codes are drawn
SetPlayers == 2      \* players while image sets are sent at any time
StaggerPlayers == 2  \* players and connections while the batch timers are followed
StaggerRooms == 2    \* rooms created while the batch timers are followed
PhasePlayers == 2    \* players of the game the host starts and resets at any time
StrayPlayers == 2    \* players of the game with guesses out of turn

(* Program constants *)

ReadyCount == 10     \* p.imageCount === 10
PointsPerGuess == 100

Codes == {"AB12C3"}                 \* codes generateRoomCode may return
RoomInputs == Codes \cup {"ZZZZZZ"} \* room codes clients send
Names == {"Ann"}
Images == {"imgA", "imgB"}                    \* names clients send
ImageInputs(n) == {[i \in 1..n |-> "imgA"]}

LOBBY == "LOBBY"
PLAYING == "PLAYING"
GAME_OVER == "GAME_OVER"

-----------------------------------------------------------------------------
(* Helpers *)

Range(s) == {s[i] : i \in DOMAIN s}

Min(S) == CHOOSE x \in S : \A y \in S : x <= y

\* Array.prototype.findIndex, 1-based; 0 when nothing matches
FindIndex(s, Test(_)) ==
  LET hits == {i \in DOMAIN s : Test(s[i])}
  IN  IF hits = {} THEN 0 ELSE Min(hits)

FindBySocket(players, sock) == FindIndex(players, LAMBDA p : p.socketId = sock)

\* A lookup that falls back on the last player
FindByIdOrFirst(players, pid) ==
  IF \E k \in DOMAIN players : players[k].id = pid
  THEN CHOOSE k \in DOMAIN players : players[k].id = pid
  ELSE Len(players)

FindById(players, pid) == FindIndex(players, LAMBDA p : p.id = pid)

\* rooms.get(roomId): the room reference, 0 for undefined
Lookup(code) ==
  LET i == FindIndex(rooms, LAMBDA e : e.id = code)
  IN  IF i = 0 THEN 0 ELSE rooms[i].ref

\* rooms.set(roomId, room): an existing key keeps its place in the Map
RegistrySet(code, ref) ==
  LET i == FindIndex(rooms, LAMBDA e : e.id = code)
  IN  IF i = 0 THEN Append(rooms, [id |-> code, ref |-> ref])
      ELSE [rooms EXCEPT ![i] = [id |-> code, ref |-> ref]]

\* A timer that leaves the emptied room registered
RegistryKeep(code) == rooms

\* rooms.delete(roomId)
RegistryDelete(code) == SelectSeq(rooms, LAMBDA e : e.id # code)

Emit(ev, room, sock, data) == [ev |-> ev, room |-> room, sock |-> sock, data |-> data]

sanitizeRoom(room) ==
  [id |-> room.id,
   players |-> [i \in DOMAIN room.players |->
                  [id |-> room.players[i].id,
                   name |-> room.players[i].name,
                   isHost |-> room.players[i].isHost,
                   imageCount |-> room.players[i].imageCount,
                   score |-> room.players[i].score]],
   gameState |-> room.gameState,
   currentImageIndex |-> room.currentImageIndex,
   syncComplete |-> room.syncComplete]

NewPlayer(pid, sock, name, host) ==
  [id |-> pid, socketId |-> sock, name |-> name, isHost |-> host,
   imageCount |-> 0, score |-> 0, images |-> <<>>]

\* The room object literal of create-room; it has no guesses property.
NewRoom(code, pid, sock) ==
  [id |-> code,
   players |-> <<NewPlayer(pid, sock, "", TRUE)>>,
   gameState |-> LOBBY,
   currentImageIndex |-> 0,
   allImages |-> <<>>,
   syncComplete |-> FALSE,
   syncProgress |-> <<>>,
   hasGuesses |-> FALSE,
   guesses |-> <<>>]

-----------------------------------------------------------------------------
(* Connections *)

Connect ==
  /\ ~crashed
  /\ op' = "connection"
  /\ nextSock < lim.sockets
  /\ nextSock' = nextSock + 1
  /\ connected' = connected \cup {nextSock + 1}
  /\ out' = <<>>
  /\ UNCHANGED <<heap, rooms, nextPid, graceTimers, advanceTimers,
                 syncEmitted, lim, batchTimers, crashed>>

-----------------------------------------------------------------------------
(* create-room *)

CreateRoom(sock, code) ==
  /\ ~crashed
  /\ op' = "create-room"
  /\ sock \in connected
  /\ nextPid < lim.players
  /\ Len(heap) < lim.rooms
  /\ LET pid == nextPid + 1
         ref == Len(heap) + 1
     IN  /\ heap' = Append(heap, NewRoom(code, pid, sock))
         /\ rooms' = RegistrySet(code, ref)
         /\ syncEmitted' = Append(syncEmitted, 0)
         /\ nextPid' = pid
         /\ out' = <<Emit("room-created", "", sock, [roomId |-> code, playerId |-> pid])>>
  /\ UNCHANGED <<nextSock, connected, graceTimers, advanceTimers, lim, batchTimers, crashed>>

-----------------------------------------------------------------------------
(* join-room *)

\* A handler that admits players at any time
InProgressNever(room) == FALSE

\* if (room.gameState !== GameState.LOBBY)
InProgress(room) == room.gameState # LOBBY

JoinRoom(sock, code, name) ==
  /\ ~crashed
  /\ op' = "join-room"
  /\ sock \in connected
  /\ LET ref == Lookup(code)
     IN  IF ref = 0
         THEN /\ out' = <<Emit("error", "", sock, "Room not found")>>
              /\ UNCHANGED <<heap, nextPid>>
         ELSE IF InProgress(heap[ref])
         THEN /\ out' = <<Emit("error", "", sock, "Game already in progress")>>
              /\ UNCHANGED <<heap, nextPid>>
         ELSE /\ nextPid < lim.players
              /\ LET pid == nextPid + 1
                     room == [heap[ref] EXCEPT
                                !.players = Append(@, NewPlayer(pid, sock, name, FALSE))]
                 IN  /\ heap' = [heap EXCEPT ![ref] = room]
                     /\ nextPid' = pid
                     /\ out' = <<Emit("joined-room", "", sock, [roomId |-> code, playerId |-> pid]),
                                 Emit("room-updated", code, 0, sanitizeRoom(room))>>
  /\ UNCHANGED <<rooms, nextSock, connected, graceTimers, advanceTimers,
                 syncEmitted, lim, batchTimers, crashed>>

-----------------------------------------------------------------------------
(* reconnect-to-room *)

ReconnectToRoom(sock, code, pid) ==
  /\ ~crashed
  /\ op' = "reconnect-to-room"
  /\ sock \in connected
  /\ LET ref == Lookup(code)
         i == IF ref = 0 THEN 0 ELSE FindById(heap[ref].players, pid)
     IN  IF ref = 0 \/ i = 0
         THEN /\ out' = <<>>
              /\ UNCHANGED heap
         ELSE LET room == [heap[ref] EXCEPT !.players[i].socketId = sock]
                  base == [roomId |-> code, playerId |-> pid,
                           room |-> sanitizeRoom(room), gameState |-> room.gameState]
                  resume == room.gameState = PLAYING /\ Len(room.allImages) > 0
                  idx == room.currentImageIndex
                  data == [base |-> base,
                           resume |-> resume,
                           \* room.allImages[idx]?.image: undefined past the deck
                           hasImage |-> resume /\ idx < Len(room.allImages),
                           currentImage |-> IF resume /\ idx < Len(room.allImages)
                                            THEN room.allImages[idx + 1].image ELSE "",
                           imageIndex |-> IF resume THEN idx ELSE 0,
                           totalImages |-> IF resume THEN Len(room.allImages) ELSE 0,
                           players |-> IF resume
                                       THEN [k \in DOMAIN room.players |->
                                               [id |-> room.players[k].id,
                                                name |-> room.players[k].name]]
                                       ELSE <<>>]
              IN  /\ heap' = [heap EXCEPT ![ref] = room]
                  /\ out' = <<Emit("reconnected", "", sock, data)>>
  /\ UNCHANGED <<rooms, nextPid, nextSock, connected, graceTimers, advanceTimers,
                 syncEmitted, lim, batchTimers, crashed>>

-----------------------------------------------------------------------------
(* update-name *)

UpdateName(sock, code, name) ==
  /\ ~crashed
  /\ op' = "update-name"
  /\ sock \in connected
  /\ LET ref == Lookup(code)
         i == IF ref = 0 THEN 0 ELSE FindBySocket(heap[ref].players, sock)
     IN  IF ref = 0 \/ i = 0
         THEN /\ out' = <<>>
              /\ UNCHANGED heap
         ELSE LET room == [heap[ref] EXCEPT !.players[i].name = name]
              IN  /\ heap' = [heap EXCEPT ![ref] = room]
                  /\ out' = <<Emit("room-updated", code, 0, sanitizeRoom(room))>>
  /\ UNCHANGED <<rooms, nextPid, nextSock, connected, graceTimers, advanceTimers,
                 syncEmitted, lim, batchTimers, crashed>>

-----------------------------------------------------------------------------
(* disconnect and its grace timer *)

\* for (const [roomId, room] of rooms.entries()): the first room, in Map
\* order, that has a player bound to the socket; 0 when there is none
FirstRoomOf(sock) ==
  FindIndex(rooms, LAMBDA e : FindBySocket(heap[e.ref].players, sock) # 0)

Disconnect(sock) ==
  /\ ~crashed
  /\ op' = "disconnect"
  /\ sock \in connected
  /\ connected' = connected \ {sock}
  /\ LET e == FirstRoomOf(sock)
     IN  IF e = 0
         THEN UNCHANGED graceTimers
         ELSE LET room == heap[rooms[e].ref]
                  player == room.players[FindBySocket(room.players, sock)]
              IN  graceTimers' = Append(graceTimers,
                                        [roomId |-> rooms[e].id,
                                         playerId |-> player.id,
                                         socketId |-> sock,
                                         \* round-advance timers armed earlier fire earlier
                                         behind |-> Len(advanceTimers)])
  /\ out' = <<>>
  /\ UNCHANGED <<heap, rooms, nextPid, nextSock, advanceTimers,
                 syncEmitted, lim, batchTimers, crashed>>

\* A timer that promotes the latest arrival
PromoteLast(room) == [room EXCEPT !.players[Len(room.players)].isHost = TRUE]

\* A timer that promotes nobody when the host leaves
PromoteNobody(room) == room

\* currentRoom.players[0].isHost = true
Promote(room) == [room EXCEPT !.players[1].isHost = TRUE]

\* A timer that does not look at the connection the player is bound to now
NotReconnectedUnchecked(player, t) == TRUE

\* currentPlayer.socketId === socket.id
NotReconnected(player, t) == player.socketId = t.socketId

\* The setTimeout callback of the disconnect handler (5 minutes).
GraceExpiry(t) ==
  LET ref == Lookup(t.roomId)
      i == IF ref = 0 THEN 0 ELSE FindById(heap[ref].players, t.playerId)
  IN  IF ref = 0 \/ i = 0 \/ ~NotReconnected(heap[ref].players[i], t)
      THEN /\ out' = <<>>
           /\ UNCHANGED <<heap, rooms>>
      ELSE LET player == heap[ref].players[i]
               removed == [heap[ref] EXCEPT
                             !.players = SelectSeq(@, LAMBDA p : p.id # t.playerId)]
               left == <<Emit("player-left", t.roomId, 0,
                              [playerId |-> player.id, playerName |-> player.name]),
                         Emit("room-updated", t.roomId, 0, sanitizeRoom(removed))>>
           IN  IF Len(removed.players) = 0
               THEN /\ heap' = [heap EXCEPT ![ref] = removed]
                    /\ rooms' = RegistryDelete(t.roomId)
                    /\ out' = left
               ELSE IF player.isHost
               THEN LET promoted == Promote(removed)
                    IN  /\ heap' = [heap EXCEPT ![ref] = promoted]
                        /\ out' = left \o <<Emit("room-updated", t.roomId, 0,
                                                 sanitizeRoom(promoted))>>
                        /\ UNCHANGED rooms
               ELSE /\ heap' = [heap EXCEPT ![ref] = removed]
                    /\ out' = left
                    /\ UNCHANGED rooms

GraceFire ==
  /\ ~crashed
  /\ op' = "grace-timer"
  /\ graceTimers # <<>>
  /\ Head(graceTimers).behind = 0
  /\ GraceExpiry(Head(graceTimers))
  /\ graceTimers' = Tail(graceTimers)
  /\ UNCHANGED <<nextPid, nextSock, connected, advanceTimers,
                 syncEmitted, lim, batchTimers, crashed>>

-----------------------------------------------------------------------------
(* submit-images and startImageSync *)

\* An exchange that loses a[i]
SwapOverwrites(a, i, j) == [a EXCEPT ![i + 1] = a[j + 1]]

\* [a[i], a[j]] = [a[j], a[i]] on 0-based positions
Swap(a, i, j) == [a EXCEPT ![i + 1] = a[j + 1], ![j + 1] = a[i + 1]]

\* The indices Math.floor(Math.random() * (i + 1)) can give when Math.random()
\* returns one of 0/steps, 1/steps, ..., (steps-1)/steps.
RandomIndex(i, steps) == {(k * (i + 1)) \div steps : k \in 0..(steps - 1)}

RECURSIVE DrawsFrom(_, _, _)
DrawsFrom(i, n, steps) ==
  IF i > n - 1 THEN {<<>>}
  ELSE {<<j>> \o rest : j \in RandomIndex(i, steps), rest \in DrawsFrom(i + 1, n, steps)}

\* One index per iteration of the shuffle loop, i = n-1 down to 1: js[i] is
\* the index drawn in iteration i
RandomDraws(n, steps) == DrawsFrom(1, n, steps)

RECURSIVE ShuffleFrom(_, _, _)
ShuffleFrom(a, i, js) ==
  IF i < 1 THEN a ELSE ShuffleFrom(Swap(a, i, js[i]), i - 1, js)

\* for (let i = length - 1; i > 0; i--) swap(i, j)
Shuffle(a, js) == ShuffleFrom(a, Len(a) - 1, js)

RECURSIVE Assemble(_, _)
\* players.forEach(player => player.images.forEach(image => allImages.push(...)))
Assemble(players, k) ==
  IF k > Len(players) THEN <<>>
  ELSE [i \in 1..Len(players[k].images) |->
          [image |-> players[k].images[i],
           ownerId |-> players[k].id,
           ownerName |-> players[k].name]] \o Assemble(players, k + 1)

\* The deck startImageSync leaves in room.allImages for the draws js
startImageSync(room, js) == [room EXCEPT !.allImages = Shuffle(Assemble(room.players, 1), js)]

\* room.allImages.forEach((imageData, index) => setTimeout(..., index * 100)):
\* one timer per deck entry, armed in deck order
BatchTimersOf(ref, room) ==
  [k \in 1..Len(room.allImages) |->
     [room |-> ref, index |-> k - 1, image |-> room.allImages[k].image]]

AllReady(room) == \A i \in DOMAIN room.players : room.players[i].imageCount = lim.ready

SubmitImages(sock, code, images) ==
  /\ ~crashed
  /\ op' = "submit-images"
  /\ sock \in connected
  /\ LET ref == Lookup(code)
         i == IF ref = 0 THEN 0 ELSE FindBySocket(heap[ref].players, sock)
     IN  IF ref = 0
         THEN /\ out' = <<Emit("ack", "", sock, "Room not found")>>
              /\ UNCHANGED <<heap, batchTimers>>
         ELSE IF i = 0
         THEN /\ out' = <<Emit("ack", "", sock, "Player not found")>>
              /\ UNCHANGED <<heap, batchTimers>>
         ELSE LET room == [heap[ref] EXCEPT !.players[i].images = images,
                                            !.players[i].imageCount = Len(images)]
                  acks == <<Emit("ack", "", sock, "success"),
                            Emit("room-updated", code, 0, sanitizeRoom(room))>>
              IN  IF AllReady(room)
                  THEN \E js \in RandomDraws(lim.ready * Len(room.players), lim.random) :
                         /\ heap' = [heap EXCEPT ![ref] = startImageSync(room, js)]
                         /\ batchTimers' = IF lim.stagger
                                            THEN batchTimers \o
                                                 BatchTimersOf(ref, startImageSync(room, js))
                                            ELSE batchTimers
                         /\ out' = acks \o <<Emit("sync-started", room.id, 0,
                                                  Len(room.players) * lim.ready)>>
                  ELSE /\ heap' = [heap EXCEPT ![ref] = room]
                       /\ out' = acks
                       /\ UNCHANGED batchTimers
  /\ UNCHANGED <<rooms, nextPid, nextSock, connected, graceTimers, advanceTimers,
                 syncEmitted, lim, crashed>>

\* The batch timer of startImageSync: it emits the image its closure captured
\* and reads the length of room.allImages when it fires.  Timer k fires before
\* a timer armed earlier only if its delay (100 ms times its index) is shorter.
BatchDue(k) == \A j \in 1..(k - 1) : batchTimers[j].index > batchTimers[k].index

BatchFire ==
  /\ ~crashed
  /\ op' = "batch-timer"
  /\ \E k \in DOMAIN batchTimers :
       /\ BatchDue(k)
       /\ LET t == batchTimers[k]
              room == heap[t.room]
          IN  out' = <<Emit("sync-image-batch", room.id, 0,
                            [batchIndex |-> t.index,
                             totalBatches |-> Len(room.allImages),
                             image |-> t.image])>>
       /\ batchTimers' = [j \in 1..(Len(batchTimers) - 1) |->
                            IF j < k THEN batchTimers[j] ELSE batchTimers[j + 1]]
  /\ UNCHANGED <<heap, rooms, nextPid, nextSock, connected, graceTimers, advanceTimers,
                 syncEmitted, lim, crashed>>

-----------------------------------------------------------------------------
(* images-synced *)

\* room.syncProgress.get(pid)?.size || 0
Synced(room, pid) ==
  IF pid \in DOMAIN room.syncProgress THEN Cardinality(room.syncProgress[pid]) ELSE 0

RECURSIVE SumSynced(_, _)
SumSynced(room, k) ==
  IF k > Len(room.players) THEN 0
  ELSE Synced(room, room.players[k].id) + SumSynced(room, k + 1)

\* Math.round((totalSynced / totalRequired) * 100); 0/0 is NaN, n/0 Infinity
Progress(totalSynced, totalRequired) ==
  IF totalRequired = 0
  THEN [nan |-> totalSynced = 0, inf |-> totalSynced # 0, value |-> 0]
  ELSE [nan |-> FALSE, inf |-> FALSE,
        value |-> (200 * totalSynced + totalRequired) \div (2 * totalRequired)]

\* A test on the sum of the acknowledgements instead of every player's
AllSyncedInSum(room) == SumSynced(room, 1) >= Len(room.allImages)

\* room.players.every(p => synced(p) >= totalImages)
AllSynced(room) ==
  \A i \in DOMAIN room.players : Synced(room, room.players[i].id) >= Len(room.allImages)

\* An acknowledgment list that counts a repeated index once more
AddAckCounted(progress, pid, batchIndex) ==
  IF pid \in DOMAIN progress
  THEN [progress EXCEPT ![pid] = IF batchIndex \in @
                                 THEN @ \cup {batchIndex + MaxBatch + 1}
                                 ELSE @ \cup {batchIndex}]
  ELSE progress @@ (pid :> {batchIndex})

AddAck(progress, pid, batchIndex) ==
  IF pid \in DOMAIN progress
  THEN [progress EXCEPT ![pid] = @ \cup {batchIndex}]
  ELSE progress @@ (pid :> {batchIndex})

\* A guard that forgets the flag
CompletesSyncAgain(room) == AllSynced(room)

\* if (allSynced && !room.syncComplete)
CompletesSync(room) == AllSynced(room) /\ ~room.syncComplete

ImagesSynced(sock, code, batchIndex) ==
  /\ ~crashed
  /\ op' = "images-synced"
  /\ sock \in connected
  /\ LET ref == Lookup(code)
         i == IF ref = 0 THEN 0 ELSE FindBySocket(heap[ref].players, sock)
     IN  IF ref = 0 \/ i = 0
         THEN /\ out' = <<>>
              /\ UNCHANGED <<heap, syncEmitted>>
         ELSE LET pid == heap[ref].players[i].id
                  room == [heap[ref] EXCEPT !.syncProgress = AddAck(@, pid, batchIndex)]
                  total == Len(room.allImages)
                  playerProgress == [k \in DOMAIN room.players |->
                                       [id |-> room.players[k].id,
                                        name |-> room.players[k].name,
                                        synced |-> Synced(room, room.players[k].id),
                                        total |-> total]]
                  progress == Progress(SumSynced(room, 1), total * Len(room.players))
                  report == <<Emit("sync-progress", code, 0,
                                   [progress |-> progress, playerProgress |-> playerProgress])>>
              IN  IF CompletesSync(room)
                  THEN LET done == [room EXCEPT !.syncComplete = TRUE]
                       IN  /\ heap' = [heap EXCEPT ![ref] = done]
                           /\ syncEmitted' = [syncEmitted EXCEPT ![ref] = @ + 1]
                           /\ out' = report \o <<Emit("sync-complete", code, 0, <<>>),
                                                 Emit("room-updated", code, 0, sanitizeRoom(done))>>
                  ELSE /\ heap' = [heap EXCEPT ![ref] = room]
                       /\ out' = report
                       /\ UNCHANGED syncEmitted
  /\ UNCHANGED <<rooms, nextPid, nextSock, connected, graceTimers, advanceTimers,
                 lim, batchTimers, crashed>>

-----------------------------------------------------------------------------
(* start-game and sendRound *)

Roster(room) ==
  [k \in DOMAIN room.players |-> [id |-> room.players[k].id, name |-> room.players[k].name]]

\* The events sendRound emits: none when allImages[currentImageIndex] is undefined
sendRound(room) ==
  IF room.currentImageIndex < Len(room.allImages)
  THEN <<Emit("round-started", room.id, 0,
              [image |-> room.allImages[room.currentImageIndex + 1].image,
               imageIndex |-> room.currentImageIndex,
               totalImages |-> Len(room.allImages),
               players |-> Roster(room)])>>
  ELSE <<>>

\* The room as start-game leaves it
Started(room) ==
  [room EXCEPT !.gameState = PLAYING,
               !.currentImageIndex = 0,
               !.hasGuesses = TRUE,
               !.guesses = <<>>,
               !.players = [k \in DOMAIN room.players |->
                              [room.players[k] EXCEPT !.score = 0]]]

\* A handler that lets anybody through
NotHostNever(room, sock) == FALSE

\* A test that stops only connections bound to no player of the room
NotHostUnbound(room, sock) == FindBySocket(room.players, sock) = 0

\* if (!player?.isHost): no bound player, or a bound player who is not host
NotHost(room, sock) ==
  LET i == FindBySocket(room.players, sock)
  IN  IF i = 0 THEN TRUE ELSE ~room.players[i].isHost

\* A handler that does not wait for the sync
NotSyncedNever(room) == FALSE

\* if (!room.syncComplete)
NotSynced(room) == ~room.syncComplete

StartGame(sock, code) ==
  /\ ~crashed
  /\ op' = "start-game"
  /\ sock \in connected
  /\ LET ref == Lookup(code)
     IN  IF ref = 0
         THEN /\ out' = <<Emit("ack", "", sock, "Room not found")>>
              /\ UNCHANGED heap
         ELSE IF NotHost(heap[ref], sock)
         THEN /\ out' = <<Emit("ack", "", sock, "Only the host can start the game")>>
              /\ UNCHANGED heap
         ELSE IF NotSynced(heap[ref])
         THEN /\ out' = <<Emit("ack", "", sock, "Images not synced yet")>>
              /\ UNCHANGED heap
         ELSE LET room == Started(heap[ref])
              IN  /\ heap' = [heap EXCEPT ![ref] = room]
                  /\ out' = <<Emit("ack", "", sock, "success")>> \o sendRound(room)
  /\ UNCHANGED <<rooms, nextPid, nextSock, connected, graceTimers, advanceTimers,
                 syncEmitted, lim, batchTimers, crashed>>

-----------------------------------------------------------------------------
(* submit-guess and processRoundResults *)

\* room.guesses.get(imageIndex).set(player.id, guessedPlayerId)
AddGuess(guesses, imageIndex, pid, guessed) ==
  IF imageIndex \in DOMAIN guesses
  THEN [guesses EXCEPT ![imageIndex] =
          IF pid \in DOMAIN @ THEN [@ EXCEPT ![pid] = guessed] ELSE @ @@ (pid :> guessed)]
  ELSE guesses @@ (imageIndex :> (pid :> guessed))

\* if (roundGuesses.size >= room.players.length)
AllGuessed(room, imageIndex) ==
  Cardinality(DOMAIN room.guesses[imageIndex]) >= Len(room.players)

\* processRoundResults dereferences both without a check
ResolutionThrows(room) ==
  \/ room.currentImageIndex \notin DOMAIN room.guesses
  \/ room.currentImageIndex >= Len(room.allImages)

\* A comparison that takes a missing guess for a right one
GuessedOrSilent(room, pid) ==
  LET roundGuesses == room.guesses[room.currentImageIndex]
      currentImage == room.allImages[room.currentImageIndex + 1]
  IN  pid \in DOMAIN roundGuesses => roundGuesses[pid] = currentImage.ownerId

\* guessedPlayerId === currentImage.ownerId, undefined when the player has no guess
GuessedCorrectly(room, pid) ==
  LET roundGuesses == room.guesses[room.currentImageIndex]
      currentImage == room.allImages[room.currentImageIndex + 1]
  IN  pid \in DOMAIN roundGuesses /\ roundGuesses[pid] = currentImage.ownerId

\* player.score += 100 for every player who guessed correctly
Scored(room) ==
  [room EXCEPT !.players = [k \in DOMAIN room.players |->
     IF GuessedCorrectly(room, room.players[k].id)
     THEN [room.players[k] EXCEPT !.score = @ + PointsPerGuess]
     ELSE room.players[k]]]

RoundResultsOf(room) ==
  [k \in DOMAIN room.players |->
     [playerId |-> room.players[k].id,
      name |-> room.players[k].name,
      score |-> IF GuessedCorrectly(room, room.players[k].id) THEN PointsPerGuess ELSE 0,
      guessedCorrectly |-> GuessedCorrectly(room, room.players[k].id)]]

ScoresOf(room) ==
  [k \in DOMAIN room.players |->
     [id |-> room.players[k].id, name |-> room.players[k].name, score |-> room.players[k].score]]

\* const isLastRound = imageIndex >= room.allImages.length - 1
IsLastRound(room) == room.currentImageIndex >= Len(room.allImages) - 1

\* The round-results broadcast of processRoundResults, `after` being the scored room
RoundResultsEvent(room, after) ==
  LET currentImage == room.allImages[room.currentImageIndex + 1]
  IN  Emit("round-results", room.id, 0,
           [correctOwner |-> [id |-> currentImage.ownerId, name |-> currentImage.ownerName],
            results |-> RoundResultsOf(room),
            scores |-> ScoresOf(after),
            isLastRound |-> IsLastRound(room)])

SubmitGuess(sock, code, imageIndex, guessed) ==
  /\ ~crashed
  /\ op' = "submit-guess"
  /\ sock \in connected
  /\ LET ref == Lookup(code)
         i == IF ref = 0 THEN 0 ELSE FindBySocket(heap[ref].players, sock)
     IN  IF ref = 0 \/ i = 0
         THEN /\ out' = <<>>
              /\ UNCHANGED <<heap, advanceTimers, crashed>>
         ELSE IF ~heap[ref].hasGuesses
         THEN \* room.guesses is undefined: TypeError
              /\ crashed' = TRUE
              /\ out' = <<>>
              /\ UNCHANGED <<heap, advanceTimers>>
         ELSE LET pid == heap[ref].players[i].id
                  room == [heap[ref] EXCEPT !.guesses = AddGuess(@, imageIndex, pid, guessed)]
                  told == <<Emit("guess-submitted", "", sock, <<>>)>>
              IN  IF ~AllGuessed(room, imageIndex)
                  THEN /\ heap' = [heap EXCEPT ![ref] = room]
                       /\ out' = told
                       /\ UNCHANGED <<advanceTimers, crashed>>
                  ELSE IF ResolutionThrows(room)
                  THEN /\ heap' = [heap EXCEPT ![ref] = room]
                       /\ out' = told
                       /\ crashed' = TRUE
                       /\ UNCHANGED advanceTimers
                  ELSE LET after == Scored(room)
                       IN  /\ Len(advanceTimers) < MaxArmed
                           /\ \A k \in DOMAIN after.players :
                                after.players[k].score <= PointsPerGuess * MaxScored
                           /\ heap' = [heap EXCEPT ![ref] = after]
                           /\ out' = told \o <<RoundResultsEvent(room, after)>>
                           /\ advanceTimers' = Append(advanceTimers,
                                                      [room |-> ref,
                                                       isLastRound |-> IsLastRound(room),
                                                       scores |-> ScoresOf(after)])
                           /\ UNCHANGED crashed
  /\ UNCHANGED <<rooms, nextPid, nextSock, connected, graceTimers, syncEmitted, lim, batchTimers>>

-----------------------------------------------------------------------------
(* the round-advance timer *)

RECURSIVE InsertAheadOfEquals(_, _)
\* An insertion that puts `e` in front of the entries with its score
InsertAheadOfEquals(sorted, e) ==
  IF sorted = <<>> THEN <<e>>
  ELSE IF Head(sorted).score > e.score
       THEN <<Head(sorted)>> \o InsertAheadOfEquals(Tail(sorted), e)
       ELSE <<e>> \o sorted

RECURSIVE InsertByScore(_, _)
\* `e` placed after every entry whose score is not smaller
InsertByScore(sorted, e) ==
  IF sorted = <<>> THEN <<e>>
  ELSE IF Head(sorted).score >= e.score
       THEN <<Head(sorted)>> \o InsertByScore(Tail(sorted), e)
       ELSE <<e>> \o sorted

RECURSIVE SortFrom(_, _, _)
SortFrom(scores, k, acc) ==
  IF k > Len(scores) THEN acc ELSE SortFrom(scores, k + 1, InsertByScore(acc, scores[k]))

\* [...scores].sort((a, b) => b.score - a.score): descending, stable
SortedScores(scores) == SortFrom(scores, 1, <<>>)

AdvanceFire ==
  /\ ~crashed
  /\ op' = "advance-timer"
  /\ advanceTimers # <<>>
  /\ LET t == Head(advanceTimers)
         room == heap[t.room]
     IN  IF t.isLastRound
         THEN LET sortedScores == SortedScores(t.scores)
              IN  /\ heap' = [heap EXCEPT ![t.room].gameState = GAME_OVER]
                  /\ out' = <<Emit("game-over", room.id, 0,
                                   [hasWinner |-> sortedScores # <<>>,
                                    winner |-> IF sortedScores # <<>> THEN sortedScores[1]
                                               ELSE [id |-> 0, name |-> "", score |-> 0],
                                    finalScores |-> sortedScores])>>
         ELSE LET next == [room EXCEPT !.currentImageIndex = @ + 1]
              IN  /\ heap' = [heap EXCEPT ![t.room] = next]
                  /\ out' = sendRound(next)
  /\ advanceTimers' = Tail(advanceTimers)
  /\ graceTimers' = [k \in DOMAIN graceTimers |->
                       [graceTimers[k] EXCEPT !.behind = IF @ > 0 THEN @ - 1 ELSE 0]]
  /\ UNCHANGED <<rooms, nextPid, nextSock, connected, syncEmitted, lim, batchTimers, crashed>>

-----------------------------------------------------------------------------
(* new-game *)

\* A reset that leaves the scores of the last game standing
ResetButScores(room) ==
  [room EXCEPT !.gameState = LOBBY,
               !.currentImageIndex = 0,
               !.allImages = <<>>,
               !.syncComplete = FALSE,
               !.syncProgress = <<>>,
               !.hasGuesses = TRUE,
               !.guesses = <<>>,
               !.players = [k \in DOMAIN room.players |->
                              [room.players[k] EXCEPT !.imageCount = 0,
                                                      !.images = <<>>]]]

\* The room as new-game leaves it
Reset(room) ==
  [room EXCEPT !.gameState = LOBBY,
               !.currentImageIndex = 0,
               !.allImages = <<>>,
               !.syncComplete = FALSE,
               !.syncProgress = <<>>,
               !.hasGuesses = TRUE,
               !.guesses = <<>>,
               !.players = [k \in DOMAIN room.players |->
                              [room.players[k] EXCEPT !.score = 0,
                                                      !.imageCount = 0,
                                                      !.images = <<>>]]]

NewGame(sock, code) ==
  /\ ~crashed
  /\ op' = "new-game"
  /\ sock \in connected
  /\ LET ref == Lookup(code)
     IN  IF ref = 0 \/ NotHost(heap[ref], sock)
         THEN /\ out' = <<>>
              /\ UNCHANGED <<heap, syncEmitted>>
         ELSE LET room == Reset(heap[ref])
              IN  /\ heap' = [heap EXCEPT ![ref] = room]
                  /\ syncEmitted' = [syncEmitted EXCEPT ![ref] = 0]
                  /\ out' = <<Emit("new-game-started", code, 0, sanitizeRoom(room))>>
  /\ UNCHANGED <<rooms, nextPid, nextSock, connected, graceTimers, advanceTimers,
                 lim, batchTimers, crashed>>

-----------------------------------------------------------------------------

\* The server after setupGameServer: no room, no connection, no timer.
\* limits.stagger says whether the scenario follows the batch timers; where it
\* does not, the batches count as delivered (a batch timer changes no state).
Fresh(limits) ==
  /\ heap = <<>>
  /\ rooms = <<>>
  /\ nextPid = 0
  /\ nextSock = 0
  /\ connected = {}
  /\ graceTimers = <<>>
  /\ advanceTimers = <<>>
  /\ syncEmitted = <<>>
  /\ batchTimers = <<>>
  /\ lim = limits
  /\ crashed = FALSE
  /\ op = "listen"
  /\ out = <<>>

Init ==
  Fresh([players |-> MaxPlayers, sockets |-> MaxSockets, rooms |-> MaxRooms,
         ready |-> ScaledSet, random |-> RandomSteps, stagger |-> FALSE])

(***************************************************************************)
(* What clients send.  The server accepts any payload on any connection;   *)
(* the specifications below let clients follow the pages of the client     *)
(* application, and the scenario specifications widen one input at a time. *)
(***************************************************************************)

\* A connection the client has not yet used to create, join or rejoin a room
Unbound(s) == \A r \in DOMAIN heap : FindBySocket(heap[r].players, s) = 0

\* The player bound to connection s in the room registered under c, if any
Me(s, c) ==
  LET ref == Lookup(c)
      i == IF ref = 0 THEN 0 ELSE FindBySocket(heap[ref].players, s)
  IN  IF i = 0 THEN {} ELSE {heap[ref].players[i]}

RoomOf(c) == IF Lookup(c) = 0 THEN {} ELSE {heap[Lookup(c)]}

\* The player ids a client can have been told
KnownPids == 1..nextPid

\* Lobby shows the name form while the player has no name
AsksName(s, c) == \E p \in Me(s, c) : p.name = ""

\* Lobby submits once the player has picked the whole set, in the lobby
PicksImages(s, c) ==
  \E p \in Me(s, c), room \in RoomOf(c) : p.imageCount = 0 /\ room.gameState = LOBBY

\* The batch a client acknowledges next when it acknowledges in deck order
NextBatch(s, c) ==
  UNION {{b \in 0..(Len(room.allImages) - 1) : \E p \in Me(s, c) : b = Synced(room, p.id)} :
           room \in RoomOf(c)}

\* GameRound sends the round it shows and one of the players it lists, once
ShownRound(c) == {room.currentImageIndex : room \in {r \in RoomOf(c) : r.gameState = PLAYING}}

HasGuessed(room, pid) ==
  /\ room.currentImageIndex \in DOMAIN room.guesses
  /\ pid \in DOMAIN room.guesses[room.currentImageIndex]

Guesses(s, c) == \E p \in Me(s, c), room \in RoomOf(c) : ~HasGuessed(room, p.id)

Candidates(c) ==
  UNION {{room.players[1].id, room.players[Len(room.players)].id} : room \in RoomOf(c)}

\* Lobby offers the start to the host; anybody else may try at any time
ShowsLobby(c) == \E room \in RoomOf(c) : room.gameState = LOBBY

MayStart(s, c) == ShowsLobby(c) \/ \E room \in RoomOf(c) : NotHost(room, s)

\* Connection s is bound to the host of the room registered under c
HostOf(s, c) == \E p \in Me(s, c) : p.isHost

\* GameOver offers the new game
ShowsGameOver(c) == \E room \in RoomOf(c) : room.gameState = GAME_OVER

Next ==
  \/ Connect
  \/ \E s \in connected, c \in Codes : Unbound(s) /\ CreateRoom(s, c)
  \/ \E s \in connected, c \in RoomInputs, n \in Names : Unbound(s) /\ JoinRoom(s, c, n)
  \/ \E s \in connected, c \in Codes, p \in KnownPids : Unbound(s) /\ ReconnectToRoom(s, c, p)
  \/ \E s \in connected, c \in Codes, n \in Names : AsksName(s, c) /\ UpdateName(s, c, n)
  \/ \E s \in connected : Disconnect(s)
  \/ GraceFire
  \/ \E s \in connected, c \in Codes, imgs \in ImageInputs(lim.ready) :
       PicksImages(s, c) /\ SubmitImages(s, c, imgs)
  \/ \E s \in connected, c \in Codes : \E b \in NextBatch(s, c) : ImagesSynced(s, c, b)
  \/ \E s \in connected, c \in Codes : MayStart(s, c) /\ StartGame(s, c)
  \/ \E s \in connected, c \in Codes : \E r \in ShownRound(c), g \in Candidates(c) :
       Guesses(s, c) /\ SubmitGuess(s, c, r, g)
  \/ AdvanceFire
  \/ \E s \in connected, c \in Codes : ShowsGameOver(c) /\ NewGame(s, c)

Spec == Init /\ [][Next]_vars

-----------------------------------------------------------------------------
(* SpecSession: connections come and go around one lobby.  Three players,  *)
(* four connections; no images are submitted and no game is started.       *)

InitSession ==
  Fresh([players |-> SessionPlayers, sockets |-> SessionSockets, rooms |-> MaxRooms,
         ready |-> ScaledSet, random |-> RandomSteps, stagger |-> FALSE])

NextSession ==
  \/ Connect
  \/ \E s \in connected, c \in Codes : Unbound(s) /\ CreateRoom(s, c)
  \/ \E s \in connected, c \in RoomInputs, n \in Names : Unbound(s) /\ JoinRoom(s, c, n)
  \/ \E s \in connected, c \in RoomInputs, p \in KnownPids : Unbound(s) /\ ReconnectToRoom(s, c, p)
  \/ \E s \in connected, c \in Codes, n \in Names : AsksName(s, c) /\ UpdateName(s, c, n)
  \/ \E s \in connected : Disconnect(s)
  \/ GraceFire
  \/ \E s \in connected, c \in Codes : NewGame(s, c)

SpecSession == InitSession /\ [][NextSession]_vars

(***************************************************************************)
(* Synchronisation: acknowledgements arrive for any batch index, in any     *)
(* order, repeated, from any connection, and the host resets at any time.   *)
(***************************************************************************)
InitSync ==
  Fresh([players |-> MaxPlayers, sockets |-> MaxSockets, rooms |-> MaxRooms,
         ready |-> ScaledSet, random |-> RandomSteps, stagger |-> FALSE])

NextSync ==
  \/ Connect
  \/ \E s \in connected, c \in Codes : Unbound(s) /\ CreateRoom(s, c)
  \/ \E s \in connected, c \in Codes, n \in Names : Unbound(s) /\ JoinRoom(s, c, n)
  \/ \E s \in connected, c \in Codes, p \in KnownPids : Unbound(s) /\ ReconnectToRoom(s, c, p)
  \/ \E s \in connected : Disconnect(s)
  \/ GraceFire
  \/ \E s \in connected, c \in Codes, imgs \in ImageInputs(lim.ready) :
       PicksImages(s, c) /\ SubmitImages(s, c, imgs)
  \/ \E s \in connected, c \in Codes, b \in 0..MaxBatch : ImagesSynced(s, c, b)
  \/ \E s \in connected, c \in Codes : NewGame(s, c)

SpecSync == InitSync /\ [][NextSync]_vars

(***************************************************************************)
(* One game of RoundPlayers players.  The players arrive, submit and        *)
(* acknowledge one after the other as the pages lead them; once the game    *)
(* runs, guesses, one departure and the timers interleave freely.           *)
(***************************************************************************)
InitRound ==
  Fresh([players |-> RoundPlayers, sockets |-> RoundPlayers, rooms |-> MaxRooms,
         ready |-> ScaledSet, random |-> 1, stagger |-> FALSE])

\* Every open connection has created or joined
Settled == \A s \in connected : ~Unbound(s)

\* The room is full and the roster players before s have done what `Done` asks
Turn(s, c, Done(_, _)) ==
  \E room \in RoomOf(c) :
    LET i == FindBySocket(room.players, s)
    IN  /\ Len(room.players) = lim.players
        /\ i # 0
        /\ \A k \in 1..(i - 1) : Done(room, room.players[k])

HasSubmitted(room, p) == p.imageCount > 0

HasSynced(room, p) == Synced(room, p.id) >= Len(room.allImages)

\* The game runs and nobody has left it yet
AllHere(c) ==
  \E room \in RoomOf(c) :
    /\ room.gameState = PLAYING
    /\ Len(room.players) = lim.players
    /\ \A k \in DOMAIN room.players : room.players[k].socketId \in connected

NextRound ==
  \/ Settled /\ Connect
  \/ \E s \in connected, c \in Codes : Unbound(s) /\ CreateRoom(s, c)
  \/ \E s \in connected, c \in Codes, n \in Names : Unbound(s) /\ JoinRoom(s, c, n)
  \/ \E s \in connected, c \in Codes, imgs \in ImageInputs(lim.ready) :
       PicksImages(s, c) /\ Turn(s, c, HasSubmitted) /\ SubmitImages(s, c, imgs)
  \/ \E s \in connected, c \in Codes : \E b \in NextBatch(s, c) :
       Turn(s, c, HasSynced) /\ ImagesSynced(s, c, b)
  \/ \E s \in connected, c \in Codes : ShowsLobby(c) /\ StartGame(s, c)
  \/ \E s \in connected, c \in Codes : \E r \in ShownRound(c), g \in Candidates(c) :
       Guesses(s, c) /\ SubmitGuess(s, c, r, g)
  \/ \E s \in connected, c \in Codes : AllHere(c) /\ Disconnect(s)
  \/ GraceFire
  \/ AdvanceFire

SpecRound == InitRound /\ [][NextRound]_vars

\* setTimeout callbacks run once their delay has passed
SpecRoundFair == SpecRound /\ WF_vars(GraceFire) /\ WF_vars(AdvanceFire)

(***************************************************************************)
(* The deck: DeckPlayers players submit DeckSet images each, any of        *)
(* `Images` at every place, and Math.random() covers every index.          *)
(***************************************************************************)
InitDeck ==
  Fresh([players |-> DeckPlayers, sockets |-> DeckPlayers, rooms |-> MaxRooms,
         ready |-> DeckSet, random |-> DeckPlayers * DeckSet, stagger |-> FALSE])

ImageSets(n) == [1..n -> Images]

NextDeck ==
  \/ Settled /\ Connect
  \/ \E s \in connected, c \in Codes : Unbound(s) /\ CreateRoom(s, c)
  \/ \E s \in connected, c \in Codes, n \in Names : Unbound(s) /\ JoinRoom(s, c, n)
  \/ \E s \in connected, c \in Codes, imgs \in ImageSets(lim.ready) :
       PicksImages(s, c) /\ Turn(s, c, HasSubmitted) /\ SubmitImages(s, c, imgs)

SpecDeck == InitDeck /\ [][NextDeck]_vars

(***************************************************************************)
(* The full-size lobby: two players with ReadyCount images each.  A client *)
(* acknowledges the batches in deck order; an acknowledgement may also     *)
(* arrive while the room has no deck yet.                                   *)
(***************************************************************************)
InitTwenty ==
  Fresh([players |-> 2, sockets |-> 2, rooms |-> MaxRooms,
         ready |-> ReadyCount, random |-> 1, stagger |-> FALSE])

\* No deck yet, and connection s has acknowledged nothing
Early(s, c) ==
  \E p \in Me(s, c), room \in RoomOf(c) : room.allImages = <<>> /\ Synced(room, p.id) = 0

NextTwenty ==
  \/ Settled /\ Connect
  \/ \E s \in connected, c \in Codes : Unbound(s) /\ CreateRoom(s, c)
  \/ \E s \in connected, c \in Codes, n \in Names : Unbound(s) /\ JoinRoom(s, c, n)
  \/ \E s \in connected, c \in Codes, imgs \in ImageInputs(lim.ready) :
       PicksImages(s, c) /\ Turn(s, c, HasSubmitted) /\ SubmitImages(s, c, imgs)
  \/ \E s \in connected, c \in Codes : Early(s, c) /\ ImagesSynced(s, c, 0)
  \/ \E s \in connected, c \in Codes : \E b \in NextBatch(s, c) : ImagesSynced(s, c, b)

SpecTwenty == InitTwenty /\ [][NextTwenty]_vars

(***************************************************************************)
(* Clients that do not wait for the pages: an acknowledgement is sent      *)
(* while the room has no deck, and start-game whenever the room is in the   *)
(* lobby; a guess is sent from the lobby before any game.                  *)
(***************************************************************************)
\* A guess sent from the lobby of a room in which no game was started
GuessesEarly(s, c) ==
  \E p \in Me(s, c), room \in RoomOf(c) : room.gameState = LOBBY /\ ~room.hasGuesses

InitBare ==
  Fresh([players |-> MaxPlayers, sockets |-> MaxSockets, rooms |-> MaxRooms,
         ready |-> ScaledSet, random |-> 1, stagger |-> FALSE])

NextBare ==
  \/ Settled /\ Connect
  \/ \E s \in connected, c \in Codes : Unbound(s) /\ CreateRoom(s, c)
  \/ \E s \in connected, c \in Codes, n \in Names : Unbound(s) /\ JoinRoom(s, c, n)
  \/ \E s \in connected, c \in Codes, p \in KnownPids : Unbound(s) /\ ReconnectToRoom(s, c, p)
  \/ \E s \in connected : Disconnect(s)
  \/ GraceFire
  \/ \E s \in connected, c \in Codes, imgs \in ImageInputs(lim.ready) :
       PicksImages(s, c) /\ SubmitImages(s, c, imgs)
  \/ \E s \in connected, c \in Codes : Early(s, c) /\ ImagesSynced(s, c, 0)
  \/ \E s \in connected, c \in Codes : \E b \in NextBatch(s, c) : ImagesSynced(s, c, b)
  \/ \E s \in connected, c \in Codes : ShowsLobby(c) /\ StartGame(s, c)
  \/ \E s \in connected, c \in Codes : \E r \in ShownRound(c), g \in Candidates(c) :
       Guesses(s, c) /\ SubmitGuess(s, c, r, g)
  \/ \E s \in connected, c \in Codes : \E g \in Candidates(c) :
       GuessesEarly(s, c) /\ SubmitGuess(s, c, 0, g)
  \/ AdvanceFire

SpecBare == InitBare /\ [][NextBare]_vars

(***************************************************************************)
(* Guesses sent again: AgainPlayers players play the whole game, and a     *)
(* player who has guessed may guess again while the results of the round  *)
(* are on display.                                                         *)
(***************************************************************************)
InitAgain ==
  Fresh([players |-> AgainPlayers, sockets |-> AgainPlayers, rooms |-> MaxRooms,
         ready |-> ScaledSet, random |-> 1, stagger |-> FALSE])

\* A guess sent again while the results of the round are on display
Resubmits(s, c) ==
  \E p \in Me(s, c), room \in RoomOf(c) :
    /\ HasGuessed(room, p.id)
    /\ \E k \in DOMAIN advanceTimers : advanceTimers[k].room = Lookup(c)

NextAgain ==
  \/ Settled /\ Connect
  \/ \E s \in connected, c \in Codes : Unbound(s) /\ CreateRoom(s, c)
  \/ \E s \in connected, c \in Codes, n \in Names : Unbound(s) /\ JoinRoom(s, c, n)
  \/ \E s \in connected, c \in Codes, imgs \in ImageInputs(lim.ready) :
       PicksImages(s, c) /\ Turn(s, c, HasSubmitted) /\ SubmitImages(s, c, imgs)
  \/ \E s \in connected, c \in Codes : \E b \in NextBatch(s, c) :
       Turn(s, c, HasSynced) /\ ImagesSynced(s, c, b)
  \/ \E s \in connected, c \in Codes : ShowsLobby(c) /\ StartGame(s, c)
  \/ \E s \in connected, c \in Codes : \E r \in ShownRound(c), g \in Candidates(c) :
       Guesses(s, c) /\ SubmitGuess(s, c, r, g)
  \/ \E s \in connected, c \in Codes : \E r \in ShownRound(c), g \in Candidates(c) :
       Resubmits(s, c) /\ SubmitGuess(s, c, r, g)
  \/ AdvanceFire

SpecAgain == InitAgain /\ [][NextAgain]_vars

(***************************************************************************)
(* Room codes: generateRoomCode draws six random characters and may draw   *)
(* a code that is registered.  CodeRooms rooms are created, each under any *)
(* of the codes of `Drawn`, while players join, rename and leave.          *)
(***************************************************************************)
Drawn == Codes \cup {"QR78S9"}

InitCodes ==
  Fresh([players |-> CodePlayers, sockets |-> CodePlayers, rooms |-> CodeRooms,
         ready |-> ScaledSet, random |-> 1, stagger |-> FALSE])

NextCodes ==
  \/ Connect
  \/ \E s \in connected, c \in Drawn : Unbound(s) /\ CreateRoom(s, c)
  \/ \E s \in connected, c \in Drawn, n \in Names : Unbound(s) /\ JoinRoom(s, c, n)
  \/ \E s \in connected, c \in Drawn, n \in Names : AsksName(s, c) /\ UpdateName(s, c, n)
  \/ \E s \in connected, c \in Drawn, imgs \in ImageInputs(lim.ready) :
       PicksImages(s, c) /\ SubmitImages(s, c, imgs)
  \/ \E s \in connected : Disconnect(s)
  \/ GraceFire

SpecCodes == InitCodes /\ [][NextCodes]_vars

(***************************************************************************)
(* Image sets sent at any time: a player of the room sends submit-images   *)
(* in the lobby, during the game and after it, again after a first set,    *)
(* with an array that is as long as or longer than a full set, of either   *)
(* image.  SetPlayers players play the whole game and start again.           *)
(***************************************************************************)
SentSets(n) == {[i \in 1..k |-> img] : k \in {n, n + 1}, img \in Images}

InitSets ==
  Fresh([players |-> SetPlayers, sockets |-> SetPlayers, rooms |-> MaxRooms,
         ready |-> ScaledSet, random |-> 1, stagger |-> FALSE])

NextSets ==
  \/ Settled /\ Connect
  \/ \E s \in connected, c \in Codes : Unbound(s) /\ CreateRoom(s, c)
  \/ \E s \in connected, c \in Codes, n \in Names : Unbound(s) /\ JoinRoom(s, c, n)
  \/ \E s \in connected, c \in Codes, imgs \in SentSets(lim.ready) :
       Me(s, c) # {} /\ SubmitImages(s, c, imgs)
  \/ \E s \in connected, c \in Codes : \E b \in NextBatch(s, c) :
       Turn(s, c, HasSynced) /\ ImagesSynced(s, c, b)
  \/ \E s \in connected, c \in Codes : ShowsLobby(c) /\ StartGame(s, c)
  \/ \E s \in connected, c \in Codes : \E r \in ShownRound(c), g \in Candidates(c) :
       Guesses(s, c) /\ SubmitGuess(s, c, r, g)
  \/ AdvanceFire
  \/ \E s \in connected, c \in Codes : ShowsGameOver(c) /\ NewGame(s, c)

SpecSets == InitSets /\ [][NextSets]_vars

(***************************************************************************)
(* The batch timers: each startImageSync arms one timer per deck entry,    *)
(* and the timers fire while rooms are created (under a code that may be   *)
(* registered), players join, submit their sets and leave.                 *)
(***************************************************************************)
FullSets(n) == {[i \in 1..n |-> img] : img \in Images}

InitStagger ==
  Fresh([players |-> StaggerPlayers, sockets |-> StaggerPlayers, rooms |-> StaggerRooms,
         ready |-> ScaledSet, random |-> 1, stagger |-> TRUE])

NextStagger ==
  \/ Settled /\ Connect
  \/ \E s \in connected, c \in Codes : Unbound(s) /\ CreateRoom(s, c)
  \/ \E s \in connected, c \in Codes, n \in Names : Unbound(s) /\ JoinRoom(s, c, n)
  \/ \E s \in connected, c \in Codes, imgs \in FullSets(lim.ready) :
       PicksImages(s, c) /\ SubmitImages(s, c, imgs)
  \/ BatchFire
  \/ \E s \in connected : Disconnect(s)
  \/ GraceFire

SpecStagger == InitStagger /\ [][NextStagger]_vars

(***************************************************************************)
(* The host's commands at any time: PhasePlayers players play the game as  *)
(* the pages lead them, while the host sends start-game and new-game in    *)
(* whatever state the room is.                                             *)
(***************************************************************************)
InitPhases ==
  Fresh([players |-> PhasePlayers, sockets |-> PhasePlayers, rooms |-> MaxRooms,
         ready |-> ScaledSet, random |-> 1, stagger |-> FALSE])

NextPhases ==
  \/ Settled /\ Connect
  \/ \E s \in connected, c \in Codes : Unbound(s) /\ CreateRoom(s, c)
  \/ \E s \in connected, c \in Codes, n \in Names : Unbound(s) /\ JoinRoom(s, c, n)
  \/ \E s \in connected, c \in Codes, imgs \in ImageInputs(lim.ready) :
       PicksImages(s, c) /\ Turn(s, c, HasSubmitted) /\ SubmitImages(s, c, imgs)
  \/ \E s \in connected, c \in Codes : \E b \in NextBatch(s, c) :
       Turn(s, c, HasSynced) /\ ImagesSynced(s, c, b)
  \/ \E s \in connected, c \in Codes : HostOf(s, c) /\ StartGame(s, c)
  \/ \E s \in connected, c \in Codes : \E r \in ShownRound(c), g \in Candidates(c) :
       Guesses(s, c) /\ SubmitGuess(s, c, r, g)
  \/ AdvanceFire
  \/ \E s \in connected, c \in Codes : HostOf(s, c) /\ NewGame(s, c)

SpecPhases == InitPhases /\ [][NextPhases]_vars

(***************************************************************************)
(* Guesses out of turn: StrayPlayers players play the game, and a player    *)
(* sends submit-guess for a round index that is not the current one, or     *)
(* after the game is over.                                                  *)
(***************************************************************************)
RoundInputs == 0..(lim.players * lim.ready - 1)

\* Connection s guesses for round r of room c while r is not the round being
\* played
Strays(s, c, r) ==
  \E p \in Me(s, c), room \in RoomOf(c) :
    /\ room.hasGuesses
    /\ room.gameState # PLAYING \/ r # room.currentImageIndex

InitStray ==
  Fresh([players |-> StrayPlayers, sockets |-> StrayPlayers, rooms |-> MaxRooms,
         ready |-> ScaledSet, random |-> 1, stagger |-> FALSE])

NextStray ==
  \/ Settled /\ Connect
  \/ \E s \in connected, c \in Codes : Unbound(s) /\ CreateRoom(s, c)
  \/ \E s \in connected, c \in Codes, n \in Names : Unbound(s) /\ JoinRoom(s, c, n)
  \/ \E s \in connected, c \in Codes, imgs \in ImageInputs(lim.ready) :
       PicksImages(s, c) /\ Turn(s, c, HasSubmitted) /\ SubmitImages(s, c, imgs)
  \/ \E s \in connected, c \in Codes : \E b \in NextBatch(s, c) :
       Turn(s, c, HasSynced) /\ ImagesSynced(s, c, b)
  \/ \E s \in connected, c \in Codes : ShowsLobby(c) /\ StartGame(s, c)
  \/ \E s \in connected, c \in Codes : \E r \in ShownRound(c), g \in Candidates(c) :
       Guesses(s, c) /\ SubmitGuess(s, c, r, g)
  \/ \E s \in connected, c \in Codes, r \in RoundInputs : \E g \in Candidates(c) :
       Strays(s, c, r) /\ SubmitGuess(s, c, r, g)
  \/ AdvanceFire

SpecStray == InitStray /\ [][NextStray]_vars

-----------------------------------------------------------------------------
(* Properties *)

Registered == {heap[rooms[k].ref] : k \in DOMAIN rooms}

Hosts(room) == {i \in DOMAIN room.players : room.players[i].isHost}

\* C1: every room in the registry has exactly one player with isHost = TRUE,
\* a member of its current player list, whatever create-room, join-room,
\* reconnect-to-room, grace-timer expiry and new-game did before.
C1_ExactlyOneHost == \A room \in Registered : Cardinality(Hosts(room)) = 1

\* The host left for good and the next player in the roster took over.
C1_HostReplaced ==
  /\ op = "grace-timer"
  /\ \E room \in Registered : room.players[1].isHost /\ room.players[1].id # 1

\* The last handler broadcast event ev to room c
Broadcast(ev, c) == \E k \in DOMAIN out : out[k].ev = ev /\ out[k].room = c

\* C2: within one game (from creation or the last new-game to the next
\* new-game) sync-complete is broadcast once: by the first images-synced
\* handled while every roster player has acknowledged the whole deck, and by
\* no later images-synced, whatever batch it names and whoever sends it.
C2_SyncCompleteOnce ==
  /\ [](\A r \in DOMAIN syncEmitted : syncEmitted[r] <= 1)
  /\ [][\A c \in Codes :
          /\ Broadcast("sync-complete", c)' => op' = "images-synced"
          /\ (op' = "images-synced" /\ Broadcast("sync-progress", c)')
               => (Broadcast("sync-complete", c)'
                     <=> /\ \A room \in RoomOf(c)' : AllSynced(room)
                         /\ syncEmitted[Lookup(c)] = 0)]_vars

\* A further acknowledgement has arrived in a game whose deck was already
\* acknowledged and announced, and was answered with progress alone.
C2_LateAckIgnored ==
  /\ op = "images-synced"
  /\ \E c \in Codes :
       /\ Broadcast("sync-progress", c) /\ ~Broadcast("sync-complete", c)
       /\ syncEmitted[Lookup(c)] = 1
       /\ \E room \in RoomOf(c) :
            /\ AllSynced(room) /\ room.syncComplete
            /\ Len(room.players) = 2 /\ Len(room.allImages) = 2

\* The player connection s is bound to in room c is the host
HostSends(s, c) == \E p \in Me(s, c) : p.isHost

AckOnly(s, text) == <<Emit("ack", "", s, text)>>

\* C3: start-game from the host while syncComplete is false is answered with
\* the error "Images not synced yet" and nothing else happens: no room changes
\* (gameState stays LOBBY; scores, currentImageIndex, guesses as they were) and
\* no round-started is broadcast.
C3_StartBeforeSync ==
  /\ [](\A room \in Registered : ~room.syncComplete => room.gameState = LOBBY)
  /\ [][\A s \in connected, c \in Codes :
          (StartGame(s, c) /\ HostSends(s, c) /\ \E room \in RoomOf(c) : ~room.syncComplete)
            => /\ out' = AckOnly(s, "Images not synced yet")
               /\ heap' = heap /\ rooms' = rooms /\ advanceTimers' = advanceTimers]_vars

\* The host has just been refused: its images are in, the deck is not yet
\* acknowledged by everybody.
C3_HostRefused ==
  /\ op = "start-game"
  /\ \E s \in connected, c \in Codes :
       /\ out = AckOnly(s, "Images not synced yet")
       /\ HostSends(s, c)
       /\ \E room \in RoomOf(c) : ~room.syncComplete /\ Len(room.allImages) > 0

\* C4: start-game from a connection whose player is not the host, or that is
\* bound to no player of the room, is answered with an error and changes no
\* room (gameState, currentImageIndex, guesses, scores), synced or not.
C4_StartByNonHost ==
  [][\A s \in connected, c \in Codes :
       (StartGame(s, c) /\ RoomOf(c) # {} /\ ~HostSends(s, c))
         => /\ out' = AckOnly(s, "Only the host can start the game")
            /\ heap' = heap /\ rooms' = rooms /\ advanceTimers' = advanceTimers]_vars

\* A player who is not the host has just been refused in a synced room.
C4_NonHostRefused ==
  /\ op = "start-game"
  /\ \E s \in connected, c \in Codes :
       /\ out = AckOnly(s, "Only the host can start the game")
       /\ \E p \in Me(s, c) : ~p.isHost
       /\ \E room \in RoomOf(c) : room.syncComplete

\* submit-images has just built and shuffled the deck of room c
DeckBuilt(c) == op = "submit-images" /\ Broadcast("sync-started", c)

\* How often image img tagged with owner id lies in the deck
InDeck(room, img, id) ==
  Cardinality({i \in DOMAIN room.allImages :
                 room.allImages[i].image = img /\ room.allImages[i].ownerId = id})

\* How often the player with that id has submitted image img
Submitted(room, img, id) ==
  Cardinality({<<k, i>> \in (DOMAIN room.players) \X (1..DeckSet) :
                 /\ room.players[k].id = id
                 /\ i \in DOMAIN room.players[k].images
                 /\ room.players[k].images[i] = img})

\* C8: after assembly and shuffle in startImageSync the deck holds every
\* (image, ownerId) pair as often as the players have submitted it: nothing is
\* dropped, nothing is duplicated, only the order may differ.
C8_ShufflePreservesDeck ==
  \A c \in Codes : DeckBuilt(c) =>
    \A room \in RoomOf(c) :
      /\ Len(room.allImages) = DeckSet * Len(room.players)
      /\ \A img \in Images, id \in 1..nextPid :
           InDeck(room, img, id) = Submitted(room, img, id)

\* A deck of DeckPlayers * DeckSet cards has been built that lies in another
\* order than the players submitted it, with both images in it.
C8_DeckReordered ==
  \E c \in Codes :
    /\ DeckBuilt(c)
    /\ \E room \in RoomOf(c) :
         /\ Len(room.allImages) = DeckPlayers * DeckSet
         /\ room.allImages # Assemble(room.players, 1)
         /\ room.allImages[1].ownerId = DeckPlayers
         /\ {room.allImages[i].image : i \in DOMAIN room.allImages} = Images

\* Room c as the last images-synced left it, if it has two players with
\* ReadyCount images each and the deck built from them
TwoByTen(c) ==
  {room \in RoomOf(c) :
     /\ op = "images-synced" /\ Broadcast("sync-progress", c)
     /\ Len(room.players) = 2
     /\ \A k \in DOMAIN room.players : room.players[k].imageCount = ReadyCount
     /\ Len(room.allImages) = 2 * ReadyCount}

\* The aggregate progress the last images-synced broadcast to room c
Announced(c) ==
  out[CHOOSE k \in DOMAIN out : out[k].ev = "sync-progress" /\ out[k].room = c].data.progress

\* C9 as stated: with 2 players and 10 images each, progress reaches 100% and
\* sync-complete fires when 20 acknowledgements (10 images x 2 players) have
\* been received, and not before.
C9_CompleteAtTwenty ==
  \A c \in Codes : \A room \in TwoByTen(c) :
    /\ Announced(c).value = 100 <=> SumSynced(room, 1) = 20
    /\ Broadcast("sync-complete", c) <=> SumSynced(room, 1) = 20

\* C9 amended: the deck of 2 players with 10 images each has 20 batches and
\* every player acknowledges every batch, so progress is 100% exactly at 40
\* acknowledgements (50% at 20); once the deck is built sync-complete is
\* broadcast at the 40th acknowledgement and not before, and by then it has
\* been broadcast exactly once in the game.
C9_CompleteAtForty ==
  \A c \in Codes : \A room \in TwoByTen(c) :
    /\ Announced(c).value = 100 <=> SumSynced(room, 1) = 40
    /\ SumSynced(room, 1) = 20 => Announced(c).value = 50
    /\ Broadcast("sync-complete", c) => SumSynced(room, 1) = 40
    /\ SumSynced(room, 1) = 40 => room.syncComplete /\ syncEmitted[Lookup(c)] = 1
    /\ syncEmitted[Lookup(c)] <= 1

\* The 40th acknowledgement has arrived: progress 100 and sync-complete.
C9_FortiethAck ==
  \E c \in Codes : \E room \in TwoByTen(c) :
    /\ SumSynced(room, 1) = 40
    /\ Announced(c).value = 100
    /\ Broadcast("sync-complete", c)

\* The last handler resolved the current round of room c
Resolved(c) == op = "submit-guess" /\ Broadcast("round-results", c)

\* The payload of the round-results the last handler broadcast to room c
RoundResults(c) ==
  out[CHOOSE k \in DOMAIN out : out[k].ev = "round-results" /\ out[k].room = c].data

RosterIds(room) == {room.players[k].id : k \in DOMAIN room.players}

GuessersOf(room) ==
  IF room.currentImageIndex \in DOMAIN room.guesses
  THEN DOMAIN room.guesses[room.currentImageIndex] ELSE {}

\* C5: whenever round-results is broadcast for the current round, the players
\* with a recorded guess for that round are exactly the players of the roster:
\* no present player is still to guess, and the guess of a removed player does
\* not count.
C5_ResolvedByPresentPlayers ==
  \A c \in Codes : Resolved(c) => \A room \in RoomOf(c) : GuessersOf(room) = RosterIds(room)

\* A round resolved on the guess a removed player left behind, while a
\* present player had not guessed.
C5_ResolvedOnStaleGuess ==
  \E c \in Codes :
    /\ Resolved(c)
    /\ \E room \in RoomOf(c) :
         /\ GuessersOf(room) \ RosterIds(room) # {}
         /\ RosterIds(room) \ GuessersOf(room) # {}

\* The rounds of the game SpecRound plays
Rounds == 0..(RoundPlayers * ScaledSet)

\* The grace timer has just removed a player from room c in round r, and
\* every player left in the roster has a guess recorded for that round
LeftAfterOthersGuessed(c, r) ==
  /\ op = "grace-timer" /\ Broadcast("player-left", c)
  /\ \E room \in RoomOf(c) :
       /\ room.gameState = PLAYING /\ room.currentImageIndex = r
       /\ RosterIds(room) \subseteq GuessersOf(room)

\* Round r of room c is being resolved or lies behind
RoundOver(c, r) ==
  \/ Resolved(c)
  \/ \E room \in RoomOf(c) : room.currentImageIndex > r \/ room.gameState = GAME_OVER

\* C6: a player removed at grace-timer expiry during a round in which every
\* remaining player has already guessed does not stall the round: round-results
\* is eventually broadcast and the game advances, with no further guess needed.
C6_DepartureNeverStalls ==
  \A c \in Codes, r \in Rounds : LeftAfterOthersGuessed(c, r) ~> RoundOver(c, r)

\* The round waits: the leaver is gone, everybody left has guessed, no
\* resolution is under way and no timer is pending.
C6_RoundStalled ==
  /\ \E c \in Codes, r \in Rounds : LeftAfterOthersGuessed(c, r)
  /\ advanceTimers = <<>> /\ graceTimers = <<>>

\* C7: at round resolution every present player's score grows by exactly 100
\* when the guess recorded for them equals the ownerId of the deck entry at
\* currentImageIndex and by exactly 0 otherwise, a player without a recorded
\* guess included; round-results reports the same points and correctness.
C7_Scoring ==
  [][\A c \in Codes : Resolved(c)' =>
       \A room \in RoomOf(c) :
         LET after == heap'[Lookup(c)]
             r == room.currentImageIndex
             owner == after.allImages[r + 1].ownerId
             results == RoundResults(c)'.results
         IN  /\ DOMAIN after.players = DOMAIN room.players
             /\ DOMAIN results = DOMAIN room.players
             /\ \A k \in DOMAIN room.players :
                  LET pid == room.players[k].id
                      right == pid \in GuessersOf(after) /\ after.guesses[r][pid] = owner
                      points == IF right THEN 100 ELSE 0
                  IN  /\ after.players[k].id = pid
                      /\ after.players[k].score = room.players[k].score + points
                      /\ results[k].playerId = pid
                      /\ results[k].score = points
                      /\ results[k].guessedCorrectly = right]_vars

\* A resolution has scored a right guess with 100 and a present player
\* without a recorded guess with 0.
C7_RightAndSilent ==
  \E c \in Codes :
    /\ Resolved(c)
    /\ \E room \in RoomOf(c) :
         LET results == RoundResults(c).results
         IN  /\ \E k \in DOMAIN results :
                  results[k].playerId \notin GuessersOf(room) /\ results[k].score = 0
             /\ \E k \in DOMAIN results :
                  results[k].score = 100 /\ room.players[k].score >= 100

\* The timer's closure still finds its player bound to the dead connection.
TimerLive(t) ==
  \E room \in RoomOf(t.roomId) : \E i \in DOMAIN room.players :
    room.players[i].id = t.playerId /\ room.players[i].socketId = t.socketId

DisconnectStep == connected' # connected /\ connected' \subseteq connected

GraceStep == Len(graceTimers') < Len(graceTimers)

ReconnectedStep(pid) ==
  /\ op' = "reconnect-to-room"
  /\ \E k \in DOMAIN out' : out'[k].ev = "reconnected" /\ out'[k].data.base.playerId = pid

\* C10: a disconnect leaves every room and player as they were; once a
\* reconnect-to-room for a player is processed, every timer armed for one of
\* that player's earlier connections is void and stays void, and the firing of
\* a void timer removes nobody, changes no room and emits nothing.
C10_ReconnectVoidsTimer ==
  [][/\ DisconnectStep => heap' = heap /\ rooms' = rooms
     /\ \A u \in Range(graceTimers') : ReconnectedStep(u.playerId) => ~TimerLive(u)'
     /\ \A t \in Range(graceTimers) : ~TimerLive(t) => ~TimerLive(t)'
     /\ \A t \in {graceTimers[k] : k \in DOMAIN graceTimers \cap {1}} :
          (GraceStep /\ ~TimerLive(t)) => heap' = heap /\ rooms' = rooms /\ out' = <<>>]_vars

\* The only player ever created rejoined on a third connection, and a timer
\* armed for an earlier connection of theirs has just fired without effect.
C10_VoidTimerFired ==
  /\ op = "grace-timer" /\ out = <<>>
  /\ nextPid = 1
  /\ \E room \in Registered :
       room.players[1].socketId = 3 /\ 3 \in connected /\ connected = {3}

\* The timer that fires next, if a grace timer fires at all
FiringTimer == {graceTimers[k] : k \in DOMAIN graceTimers \cap {1}}

\* The roster of the room registered under the timer's code, before the step
RosterBefore(t) == heap[Lookup(t.roomId)].players

\* The roster of that same room object after the step
RosterAfter(t) == heap'[Lookup(t.roomId)].players

\* The player ids of a roster, in roster order
Ids(players) == [k \in DOMAIN players |-> players[k].id]

\* C11: a grace timer that fires while its player is still bound to the
\* disconnected connection removes the player from the roster and broadcasts
\* player-left and room-updated; the room is deleted from the registry exactly
\* when this empties the roster, so no registered room has an empty roster.
C11_ExpiryRemoves ==
  /\ [](\A room \in Registered : room.players # <<>>)
  /\ [][\A t \in FiringTimer : (GraceStep /\ TimerLive(t)) =>
          /\ Ids(RosterAfter(t)) = Ids(SelectSeq(RosterBefore(t), LAMBDA p : p.id # t.playerId))
          /\ Len(RosterAfter(t)) = Len(RosterBefore(t)) - 1
          /\ Len(out') >= 2
          /\ out'[1].ev = "player-left" /\ out'[1].room = t.roomId
          /\ out'[1].data.playerId = t.playerId
          /\ out'[2].ev = "room-updated" /\ out'[2].room = t.roomId
          /\ (RosterAfter(t) = <<>>) <=> (Lookup(t.roomId)' = 0)]_vars

\* The last player of the only room has just been removed, and the room with
\* them.
C11_RoomDeleted ==
  /\ op = "grace-timer" /\ rooms = <<>> /\ Len(heap) = 1
  /\ heap[1].players = <<>>
  /\ Len(out) = 2 /\ out[1].ev = "player-left"

\* C12: when the player removed at grace expiry was the host and others
\* remain, the first player of the remaining roster becomes the host and no
\* other flag changes; when the removed player was not the host, no player's
\* isHost flag changes.
C12_HostReassignment ==
  [][\A t \in FiringTimer : (GraceStep /\ TimerLive(t) /\ Len(RosterBefore(t)) > 1) =>
       LET before == SelectSeq(RosterBefore(t), LAMBDA p : p.id # t.playerId)
           wasHost == \E k \in DOMAIN RosterBefore(t) :
                        RosterBefore(t)[k].id = t.playerId /\ RosterBefore(t)[k].isHost
       IN  \A k \in DOMAIN before :
             /\ RosterAfter(t)[k].id = before[k].id
             /\ RosterAfter(t)[k].isHost = IF wasHost /\ k = 1 THEN TRUE ELSE before[k].isHost]_vars

\* The host of a room of three has just been removed: the second arrival is
\* host now, the third is not.
C12_SecondBecameHost ==
  /\ op = "grace-timer"
  /\ \E room \in Registered :
       /\ Len(room.players) = 2
       /\ room.players[1].id = 2 /\ room.players[1].isHost
       /\ room.players[2].id = 3 /\ ~room.players[2].isHost
  /\ \E k \in DOMAIN out : out[k].ev = "player-left" /\ out[k].data.playerId = 1

\* C14: reconnect-to-room with a room code that is not registered, or with a
\* player id that is not in that room's roster, emits nothing to anybody and
\* leaves every room, every connection binding and the registry as they were.
C14_ReconnectFailsSilently ==
  [][\A s \in connected, c \in RoomInputs, p \in KnownPids :
       (/\ ReconnectToRoom(s, c, p)
        /\ \A room \in RoomOf(c) : \A k \in DOMAIN room.players : room.players[k].id # p)
         => out' = <<>> /\ heap' = heap /\ rooms' = rooms /\ graceTimers' = graceTimers]_vars

\* A connection has asked for a player who was removed from the room, and
\* is bound to nothing.
C14_RemovedPlayerAsked ==
  /\ op = "reconnect-to-room" /\ out = <<>>
  /\ \E room \in Registered : Len(room.players) = 1 /\ room.players[1].id = 2
  /\ nextPid = 2
  /\ \E s \in connected : Unbound(s)

\* C15: join-room with a code that is not registered is answered with "Room
\* not found", join-room for a room that is not in LOBBY with "Game already in
\* progress"; neither adds a player or changes a room, so a roster grows only
\* in LOBBY.
C15_JoinRefused ==
  [][/\ \A s \in connected, c \in RoomInputs, n \in Names :
          JoinRoom(s, c, n) =>
            /\ RoomOf(c) = {} =>
                 /\ out' = <<Emit("error", "", s, "Room not found")>>
                 /\ heap' = heap /\ rooms' = rooms
            /\ (\E room \in RoomOf(c) : room.gameState # LOBBY) =>
                 /\ out' = <<Emit("error", "", s, "Game already in progress")>>
                 /\ heap' = heap /\ rooms' = rooms
     /\ \A r \in DOMAIN heap :
          Len(heap'[r].players) > Len(heap[r].players) => heap[r].gameState = LOBBY]_vars

\* A connection has just been turned away from a room whose game is over.
C15_LateJoinRefused ==
  /\ op = "join-room"
  /\ \E s \in connected :
       /\ out = <<Emit("error", "", s, "Game already in progress")>>
       /\ Unbound(s)
  /\ \E room \in Registered : room.gameState = GAME_OVER

\* The room as it is when every player is bound to the connection `bound`
\* gives for them
Rebound(room, bound) ==
  [room EXCEPT !.players = [k \in DOMAIN room.players |->
                              [room.players[k] EXCEPT !.socketId = bound[k]]]]

\* C13: a successful reconnect-to-room while the game is PLAYING replies to
\* the reconnecting connection alone, with the image at currentImageIndex, that
\* index, the deck length and the roster; in the room only that player's
\* connection binding changes, and nobody else is sent anything.
C13_ReconnectResumes ==
  [][\A s \in connected, c \in Codes, p \in KnownPids :
       (/\ ReconnectToRoom(s, c, p)
        /\ \E room \in RoomOf(c) : room.gameState = PLAYING /\ p \in RosterIds(room))
         => LET room == heap[Lookup(c)]
                after == heap'[Lookup(c)]
                idx == room.currentImageIndex
            IN  /\ Len(out') = 1
                /\ out'[1].ev = "reconnected" /\ out'[1].sock = s /\ out'[1].room = ""
                /\ out'[1].data.resume /\ out'[1].data.hasImage
                /\ idx + 1 \in DOMAIN room.allImages
                /\ out'[1].data.currentImage = room.allImages[idx + 1].image
                /\ out'[1].data.imageIndex = idx
                /\ out'[1].data.totalImages = Len(room.allImages)
                /\ out'[1].data.players = Roster(room)
                /\ after = Rebound(room, [k \in DOMAIN room.players |->
                                            IF room.players[k].id = p THEN s
                                            ELSE room.players[k].socketId])
                /\ rooms' = rooms /\ advanceTimers' = advanceTimers
                /\ graceTimers' = graceTimers]_vars

\* A player has rejoined a game that is PLAYING and was told neither image
\* nor round nor roster: the game was started on an empty deck.
C13_ResumedWithoutRound ==
  /\ op = "reconnect-to-room"
  /\ Len(out) = 1 /\ out[1].ev = "reconnected"
  /\ out[1].data.base.gameState = PLAYING
  /\ ~out[1].data.resume
  /\ \E room \in Registered : room.gameState = PLAYING /\ room.allImages = <<>>

\* start-game was let through: its acknowledgment carries success
StartSucceeded == \E k \in DOMAIN out : out[k].ev = "ack" /\ out[k].data = "success"

\* C16: a successful start-game sets every player's score to 0, sets
\* currentImageIndex to 0, empties the guess map, sets gameState to PLAYING and
\* broadcasts round-started for index 0 with the deck entry at index 0, the deck
\* length and the roster.
C16_StartResetsAndDispatches ==
  [][\A s \in connected, c \in Codes :
       (StartGame(s, c) /\ StartSucceeded')
         => LET room == heap'[Lookup(c)]
            IN  /\ \A k \in DOMAIN room.players : room.players[k].score = 0
                /\ room.currentImageIndex = 0
                /\ room.guesses = <<>>
                /\ room.gameState = PLAYING
                /\ room.players = [k \in DOMAIN room.players |->
                                     [heap[Lookup(c)].players[k] EXCEPT !.score = 0]]
                /\ \E k \in DOMAIN out' :
                      /\ out'[k].ev = "round-started" /\ out'[k].room = c
                      /\ 1 \in DOMAIN room.allImages
                      /\ out'[k].data.image = room.allImages[1].image
                      /\ out'[k].data.imageIndex = 0
                      /\ out'[k].data.totalImages = Len(room.allImages)
                      /\ out'[k].data.players = Roster(room)]_vars

\* The host's start-game succeeded and no round was dispatched: the room is
\* PLAYING on an empty deck.
C16_StartedWithoutRound ==
  /\ op = "start-game" /\ StartSucceeded
  /\ ~\E k \in DOMAIN out : out[k].ev = "round-started"
  /\ \E room \in Registered : room.gameState = PLAYING /\ room.allImages = <<>>

\* The cumulative score of the announced winner: the score the room holds for
\* that player, or the announced one once the player has left the roster
WinnerScore(room, winner) ==
  LET i == FindById(room.players, winner.id)
  IN  IF i = 0 THEN winner.score ELSE room.players[i].score

\* Scores never increase along the list
Descending(scores) ==
  \A i, j \in DOMAIN scores : i < j => scores[i].score >= scores[j].score

\* C17: round-results carries isLastRound = true exactly when the resolved
\* round index is deckLength - 1; when the display delay of the final round's
\* resolution has passed, gameState becomes GAME_OVER and game-over is broadcast
\* with a winner whose cumulative score is maximal among the players and a
\* final scoreboard sorted by score descending.
C17_LastRoundEndsGame ==
  [][/\ \A k \in DOMAIN out' :
          out'[k].ev = "round-results"
            => LET room == heap[Lookup(out'[k].room)]
               IN  out'[k].data.isLastRound
                     <=> (room.currentImageIndex = Len(room.allImages) - 1)
     /\ (AdvanceFire /\ Head(advanceTimers).isLastRound)
          => LET room == heap'[Head(advanceTimers).room]
             IN  /\ room.gameState = GAME_OVER
                 /\ Len(out') = 1
                 /\ out'[1].ev = "game-over" /\ out'[1].room = room.id
                 /\ out'[1].data.hasWinner
                 /\ \A j \in DOMAIN room.players :
                       WinnerScore(room, out'[1].data.winner) >= room.players[j].score
                 /\ Descending(out'[1].data.finalScores)
                 /\ Len(out'[1].data.finalScores) = Len(Head(advanceTimers).scores)]_vars

\* The game was declared over with a winner who holds fewer points than
\* another player of the room
C17_WinnerOutscored ==
  /\ op = "advance-timer"
  /\ \E k \in DOMAIN out, room \in Registered :
        /\ out[k].ev = "game-over" /\ out[k].room = room.id
        /\ room.gameState = GAME_OVER
        /\ \E j \in DOMAIN room.players :
              room.players[j].score > WinnerScore(room, out[k].data.winner)

\* The entries of a score list that hold its highest score
Top(scores) ==
  {i \in DOMAIN scores : \A j \in DOMAIN scores : scores[i].score >= scores[j].score}

\* Player ids are handed out in join order, and a roster is kept in it
JoinOrder(scores) ==
  \A i, j \in DOMAIN scores : i < j => scores[i].id < scores[j].id

\* C18: when several players share the highest final score, game-over.winner
\* is the one of them who joined first, and players with equal scores keep
\* their join order in the final scoreboard.
C18_TiesKeepJoinOrder ==
  [][(AdvanceFire /\ Head(advanceTimers).isLastRound)
       => LET final == out'[1].data.finalScores
              winner == out'[1].data.winner
              taken == Head(advanceTimers).scores
          IN  /\ out'[1].ev = "game-over"
              /\ JoinOrder(taken)
              /\ {final[i] : i \in DOMAIN final} = {taken[i] : i \in DOMAIN taken}
              /\ Len(final) = Len(taken)
              /\ \A i \in Top(final) : winner.id <= final[i].id
              /\ winner.score = final[1].score
              /\ \A i, j \in DOMAIN final :
                    (i < j /\ final[i].score = final[j].score) => final[i].id < final[j].id]_vars

\* The game ended on a tie at the top between players the sort had to move
\* ahead of an earlier player with fewer points
C18_TieAtTheTop ==
  /\ op = "advance-timer"
  /\ Len(out) = 1 /\ out[1].ev = "game-over"
  /\ Len(out[1].data.finalScores) = 3
  /\ Cardinality(Top(out[1].data.finalScores)) = 2
  /\ out[1].data.finalScores[3].id = 1
  /\ out[1].data.winner.id = 2

\* C19: whenever gameState is PLAYING, currentImageIndex is a valid deck index
\* (0 <= currentImageIndex < deck length); a round advance after a non-final
\* round increments currentImageIndex by exactly 1 and dispatches round-started
\* for the new index.
C19_IndexWithinDeck ==
  [][/\ \A k \in DOMAIN rooms' :
          LET room == heap'[rooms'[k].ref]
          IN  room.gameState = PLAYING
                => (0 <= room.currentImageIndex
                    /\ room.currentImageIndex < Len(room.allImages))
     /\ (AdvanceFire /\ ~Head(advanceTimers).isLastRound)
          => LET ref == Head(advanceTimers).room
             IN  /\ heap'[ref].currentImageIndex = heap[ref].currentImageIndex + 1
                 /\ \E k \in DOMAIN out' :
                       /\ out'[k].ev = "round-started" /\ out'[k].room = heap[ref].id
                       /\ out'[k].data.imageIndex = heap'[ref].currentImageIndex]_vars

\* A room is PLAYING and its current index points at no deck entry
C19_IndexOutsideDeck ==
  \E room \in Registered :
    /\ room.gameState = PLAYING
    /\ room.currentImageIndex >= Len(room.allImages)

\* C20: from the start of the image sync until the next new-game the deck
\* length does not change and is the full image set (10 images) times the
\* number of players in the room, whatever join-room, submit-images and
\* grace-timer removals happen in between.
C20_DeckLengthFixed ==
  [][\A k \in DOMAIN rooms' :
       LET before == heap[rooms'[k].ref]
           after == heap'[rooms'[k].ref]
       IN  after.allImages # <<>>
             => /\ Len(after.allImages) = lim.ready * Len(after.players)
                /\ before.allImages # <<>>
                     => Len(after.allImages) = Len(before.allImages)]_vars

\* A room whose deck does not hold the full image set of each of its players
C20_DeckOffRoster ==
  \E room \in Registered :
    /\ room.allImages # <<>>
    /\ Len(room.allImages) # lim.ready * Len(room.players)

\* C21: the image sync (deck assembly, shuffle, distribution) is triggered
\* once per game, at the submit-images after which every player is ready; a
\* later submit-images in the same game neither rebuilds or reshuffles the deck
\* nor starts a second distribution.
C21_SyncOncePerGame ==
  [][op' = "submit-images"
       => \A k \in DOMAIN rooms :
            LET before == heap[rooms[k].ref]
                after == heap'[rooms[k].ref]
            IN  /\ Broadcast("sync-started", before.id)' => AllReady(after)
                /\ before.allImages # <<>>
                     => /\ after.allImages = before.allImages
                        /\ ~Broadcast("sync-started", before.id)']_vars

\* A submit-images has started a distribution in a room where batches of an
\* earlier deck of the same game were already acknowledged
C21_SecondDistribution ==
  /\ op = "submit-images"
  /\ \E room \in Registered :
        /\ Broadcast("sync-started", room.id)
        /\ Len(room.players) = 2
        /\ Len(room.allImages) = 2 * lim.ready
        /\ \E i \in DOMAIN room.players : Synced(room, room.players[i].id) > 0

\* Every player of the roster has acknowledged as many batches as the deck holds
FullySynced(room) ==
  \A i \in DOMAIN room.players : Synced(room, room.players[i].id) = Len(room.allImages)

\* C22: sync completion is recorded (syncComplete set, sync-complete
\* broadcast) exactly at the first acknowledgment after which every player of
\* the roster has a synced count equal to the deck length, and never while
\* some player's synced count is below the deck length.
C22_CompletionExact ==
  [][op' = "images-synced"
       => \A k \in DOMAIN rooms :
            LET before == heap[rooms[k].ref]
                after == heap'[rooms[k].ref]
                recorded == ~before.syncComplete /\ after.syncComplete
            IN  /\ recorded <=> Broadcast("sync-complete", before.id)'
                /\ recorded => FullySynced(after)
                /\ (~before.syncComplete /\ ~FullySynced(before) /\ FullySynced(after))
                     => recorded]_vars

\* Completion has just been announced in a room where a player's synced count
\* is not the deck length
C22_CompletionOffCount ==
  /\ op = "images-synced"
  /\ \E room \in Registered :
        /\ Broadcast("sync-complete", room.id)
        /\ room.syncComplete
        /\ ~FullySynced(room)

\* The aggregate progress images-synced computes on a room
ProgressOf(room) == Progress(SumSynced(room, 1), Len(room.allImages) * Len(room.players))

\* Connection s acknowledges, for room c, a batch index its player has
\* acknowledged before
Duplicate(s, c, b) ==
  \E p \in Me(s, c), room \in RoomOf(c) :
    p.id \in DOMAIN room.syncProgress /\ b \in room.syncProgress[p.id]

\* C23: images-synced is idempotent per (player, batchIndex): a second
\* acknowledgment of a batch index by the same player leaves that player's
\* acknowledged set, every synced count, the aggregate progress value and
\* syncComplete as they were.
C23_AckIdempotent ==
  [][\A s \in connected, c \in Codes, b \in 0..MaxBatch :
       (Duplicate(s, c, b) /\ ImagesSynced(s, c, b))
         => LET before == heap[Lookup(c)]
                after == heap'[Lookup(c)]
            IN  /\ after.syncProgress = before.syncProgress
                /\ \A i \in DOMAIN before.players :
                      Synced(after, before.players[i].id) = Synced(before, before.players[i].id)
                /\ \E k \in DOMAIN out' :
                      /\ out'[k].ev = "sync-progress"
                      /\ out'[k].data.progress = ProgressOf(before)
                /\ after.syncComplete = before.syncComplete
                /\ after = before]_vars

\* C23, amended: a second acknowledgment of a batch index by the same player
\* leaves the acknowledged sets, every synced count and the aggregate progress
\* as they were; it runs the completion test again, so syncComplete is set by
\* it when every player of the present roster is synced and completion was
\* not recorded yet, and nothing else in the room changes.
C23_AckIdempotentButCompletes ==
  [][\A s \in connected, c \in Codes, b \in 0..MaxBatch :
       (Duplicate(s, c, b) /\ ImagesSynced(s, c, b))
         => LET before == heap[Lookup(c)]
                after == heap'[Lookup(c)]
            IN  /\ after.syncProgress = before.syncProgress
                /\ \A i \in DOMAIN before.players :
                      Synced(after, before.players[i].id) = Synced(before, before.players[i].id)
                /\ \E k \in DOMAIN out' :
                      /\ out'[k].ev = "sync-progress"
                      /\ out'[k].data.progress = ProgressOf(before)
                /\ after.syncComplete = (before.syncComplete \/ AllSynced(before))
                /\ after = [before EXCEPT !.syncComplete = after.syncComplete]]_vars

\* The only player the room ever had has acknowledged batch 0 of its deck again
\* after completion was recorded on that acknowledgment set
C23_AcknowledgedTwice ==
  /\ op = "images-synced"
  /\ nextPid = 1
  /\ \E room \in Registered :
        /\ Len(room.players) = 1
        /\ Len(room.allImages) = 1
        /\ room.syncProgress = (room.players[1].id :> {0})
        /\ room.syncComplete
        /\ ~Broadcast("sync-complete", room.id)
        /\ Broadcast("sync-progress", room.id)

\* Connection s sends a guess for round r of room c, for which its player
\* has a guess on record
Resent(s, c, r) ==
  \E p \in Me(s, c), room \in RoomOf(c) :
    r \in DOMAIN room.guesses /\ p.id \in DOMAIN room.guesses[r]

\* C24: a player's repeated submit-guess for a round overwrites the earlier
\* guess: the number of recorded guesses for the round does not grow, only the
\* last guessed owner id is used for scoring (the round was not scored on the
\* earlier one), and the resubmission does not resolve the round while another
\* present player has not guessed.
C24_GuessOverwritten ==
  [][\A s \in connected, c \in Codes, r \in Rounds, g \in KnownPids :
       (Resent(s, c, r) /\ SubmitGuess(s, c, r, g))
         => LET ref == Lookup(c)
                before == heap[ref]
                after == heap'[ref]
                pid == before.players[FindBySocket(before.players, s)].id
            IN  /\ DOMAIN after.guesses[r] = DOMAIN before.guesses[r]
                /\ after.guesses[r][pid] = g
                /\ Broadcast("round-results", c)'
                     => /\ \A i \in DOMAIN after.players :
                             after.players[i].id \in DOMAIN after.guesses[r]
                        /\ ~\E k \in DOMAIN advanceTimers : advanceTimers[k].room = ref]_vars

\* A guess sent again during the display delay has resolved the round a second
\* time: two advance timers are pending and the round was scored twice
C24_ScoredOnBothGuesses ==
  /\ op = "submit-guess"
  /\ \E room \in Registered :
        /\ Broadcast("round-results", room.id)
        /\ Len(advanceTimers) = 2
        /\ room.currentImageIndex = 0
        /\ \E i \in DOMAIN room.players : room.players[i].score = 2 * PointsPerGuess

\* C25: new-game sent by the host sets gameState to LOBBY and currentImageIndex
\* to 0, empties the deck, the sync progress map and the guess map, sets
\* syncComplete to false and every player's score and imageCount to 0 and image
\* set to empty, keeps the roster and the host, and broadcasts new-game-started.
C25_NewGameResets ==
  [][\A s \in connected, c \in Codes :
       (NewGame(s, c) /\ \E room \in RoomOf(c) : ~NotHost(room, s))
         => LET before == heap[Lookup(c)]
                after == heap'[Lookup(c)]
            IN  /\ after.gameState = LOBBY
                /\ after.currentImageIndex = 0
                /\ after.allImages = <<>>
                /\ after.syncProgress = <<>>
                /\ after.hasGuesses /\ after.guesses = <<>>
                /\ after.syncComplete = FALSE
                /\ Len(after.players) = Len(before.players)
                /\ \A i \in DOMAIN before.players :
                      /\ after.players[i].score = 0
                      /\ after.players[i].imageCount = 0
                      /\ after.players[i].images = <<>>
                      /\ after.players[i].id = before.players[i].id
                      /\ after.players[i].name = before.players[i].name
                      /\ after.players[i].socketId = before.players[i].socketId
                      /\ after.players[i].isHost = before.players[i].isHost
                /\ rooms' = rooms
                /\ out' = <<Emit("new-game-started", c, 0, sanitizeRoom(after))>>]_vars

\* The host of a two-player room has asked for a new game and the room is
\* back in the lobby with nothing left of the last game
C25_BackInLobby ==
  /\ op = "new-game"
  /\ \E room \in Registered :
        /\ Broadcast("new-game-started", room.id)
        /\ Len(room.players) = 2
        /\ room.gameState = LOBBY
        /\ room.allImages = <<>>
        /\ \A i \in DOMAIN room.players : room.players[i].score = 0

\* C26: new-game sent by a player who is not the host, by a connection bound
\* to no player of the room, or for a room code that is not registered changes
\* no room state and emits no event.
C26_NewGameIgnored ==
  [][\A s \in connected, c \in Codes :
       (NewGame(s, c) /\ ~HostOf(s, c))
         => /\ heap' = heap
            /\ rooms' = rooms
            /\ graceTimers' = graceTimers
            /\ advanceTimers' = advanceTimers
            /\ out' = <<>>]_vars

\* The player who is not the host has asked for a new game in a room with a
\* deck, and nothing was sent
C26_NonHostIgnored ==
  /\ op = "new-game"
  /\ out = <<>>
  /\ \E room \in Registered :
        /\ Len(room.players) = 2
        /\ connected = {room.players[i].socketId : i \in DOMAIN room.players}
        /\ room.allImages # <<>>

\* C27: create-room registers the new room under a code that no registered
\* room uses: it replaces and alters no existing room, and the new room has
\* the creator as its only player, host, in LOBBY.
C27_FreshCode ==
  [][op' = "create-room"
       => LET code == out'[1].data.roomId
              room == heap'[Len(heap')]
          IN  /\ \A k \in DOMAIN rooms : rooms[k].id # code
              /\ \A k \in DOMAIN rooms : k \in DOMAIN rooms' /\ rooms'[k] = rooms[k]
              /\ \A r \in DOMAIN heap : heap'[r] = heap[r]
              /\ \E k \in DOMAIN rooms' : rooms'[k].id = code /\ rooms'[k].ref = Len(heap')
              /\ room.id = code
              /\ Len(room.players) = 1
              /\ room.players[1].isHost
              /\ room.players[1].socketId = out'[1].sock
              /\ room.gameState = LOBBY]_vars

\* Two rooms were created under one code: the registry holds the second, and
\* the first, whose player is still connected, can no longer be looked up
C27_RoomReplaced ==
  /\ op = "create-room"
  /\ Len(heap) = 2
  /\ heap[1].id = heap[2].id
  /\ Len(rooms) = 1 /\ rooms[1].ref = 2
  /\ \E i \in DOMAIN heap[1].players : heap[1].players[i].socketId \in connected

\* C28: no sequence of client commands and timer firings raises an unhandled
\* error in a server handler; submit-guess for a room in which no game was
\* started, submit-guess for another round than the current one and
\* images-synced before a deck exists are handled without a crash.
C28_NoUnhandledError == ~crashed

\* submit-guess has thrown in a room that is in the lobby and never had a game
C28_ThrownInLobby ==
  /\ crashed
  /\ op = "submit-guess"
  /\ \E room \in Registered : room.gameState = LOBBY /\ ~room.hasGuesses

\* C29: once the deck is built, its entries (image, ownerId, ownerName) and
\* their order do not change until new-game: update-name, submit-images,
\* join-room, reconnect and the removal of a player leave the deck as it was.
C29_DeckImmutable ==
  [][op' # "new-game"
       => \A ref \in DOMAIN heap :
            heap[ref].allImages # <<>> => heap'[ref].allImages = heap[ref].allImages]_vars

\* A submit-images has left a deck with the entries of two owners in a room
\* whose completion was recorded for an earlier deck
C29_DeckRebuilt ==
  /\ op = "submit-images"
  /\ \E room \in Registered :
        /\ room.syncComplete
        /\ Len(room.players) = 2
        /\ Len(room.allImages) = 2 * lim.ready
        /\ \E i, j \in DOMAIN room.allImages :
              room.allImages[i].ownerId # room.allImages[j].ownerId
        /\ \E i \in DOMAIN room.players : Synced(room, room.players[i].id) = 0

\* C30: every player's imageCount is within 0..10 (here 0..lim.ready) and is
\* the size of the stored image set; a full set that was submitted does not
\* change until new-game, whatever submit-images arrives in LOBBY, PLAYING or
\* GAME_OVER.
C30_ImageSetFixed ==
  [][\A ref \in DOMAIN heap' :
       LET after == heap'[ref].players
       IN  /\ \A j \in DOMAIN after :
                /\ after[j].imageCount \in 0..lim.ready
                /\ after[j].imageCount = Len(after[j].images)
           /\ (ref \in DOMAIN heap /\ op' # "new-game")
                => \A i \in DOMAIN heap[ref].players, j \in DOMAIN after :
                     LET p == heap[ref].players[i]
                     IN  (p.id = after[j].id /\ p.imageCount = lim.ready)
                           => after[j].images = p.images]_vars

\* During the game a submit-images has stored a set longer than a full set
\* for a player whose full set is in the deck
C30_SetReplacedInGame ==
  /\ op = "submit-images"
  /\ \E room \in Registered :
        /\ room.gameState = PLAYING
        /\ \E i \in DOMAIN room.players :
              /\ room.players[i].imageCount = lim.ready + 1
              /\ \E k \in DOMAIN room.allImages :
                    room.allImages[k].ownerId = room.players[i].id

\* No registry entry holds the room reference
Unregistered(ref) == \A k \in DOMAIN rooms : rooms[k].ref # ref

\* The step changes no registered room and emits nothing to a registered code
Quiet ==
  /\ rooms' = rooms
  /\ \A k \in DOMAIN rooms : heap'[rooms[k].ref] = heap[rooms[k].ref]
  /\ \A k \in DOMAIN out' : Lookup(out'[k].room) = 0

\* The batch timers without the k-th
BatchTimersLess(k) ==
  [j \in 1..(Len(batchTimers) - 1) |-> IF j < k THEN batchTimers[j] ELSE batchTimers[j + 1]]

\* C31: a timer (batch stagger, grace, round advance) that fires after its
\* room was deleted from the registry, or after the registry entry of its code
\* was replaced by another room, is a no-op: it changes no registered room and
\* emits no event to the members of a room registered under that code.
C31_StaleTimerIsNoOp ==
  [][/\ op' = "batch-timer"
          => \A k \in DOMAIN batchTimers :
               (batchTimers' = BatchTimersLess(k) /\ Unregistered(batchTimers[k].room))
                 => Quiet
     /\ op' = "advance-timer"
          => (Unregistered(Head(advanceTimers).room) => Quiet)
     /\ op' = "grace-timer"
          => LET t == Head(graceTimers)
             IN  (\A room \in RoomOf(t.roomId) : FindById(room.players, t.playerId) = 0)
                   => Quiet]_vars

\* A batch timer has emitted to a code whose registered room has no deck: the
\* batch is that of a room the registry no longer holds
C31_BatchOfReplacedRoom ==
  /\ op = "batch-timer"
  /\ \E room \in Registered :
        /\ out[1].room = room.id
        /\ room.allImages = <<>>
        /\ \E ref \in DOMAIN heap :
              Unregistered(ref) /\ heap[ref].id = room.id /\ heap[ref].allImages # <<>>

\* C32: for one image sync the sync-image-batch events come in increasing
\* batchIndex order, 0 to deckLength - 1, each index once, and each carries the
\* image of the deck entry at its index and totalBatches equal to the deck
\* length.
C32_BatchesFollowDeck ==
  [][op' = "batch-timer"
       => \A k \in DOMAIN batchTimers :
            (BatchDue(k) /\ batchTimers' = BatchTimersLess(k))
              => LET t == batchTimers[k]
                     deck == heap[t.room].allImages
                 IN  /\ \A j \in DOMAIN batchTimers' :
                          batchTimers'[j].room = t.room => batchTimers'[j].index >= t.index
                     /\ t.index < Len(deck)
                     /\ out' = <<Emit("sync-image-batch", heap[t.room].id, 0,
                                      [batchIndex |-> t.index,
                                       totalBatches |-> Len(deck),
                                       image |-> deck[t.index + 1].image])>>]_vars

\* In the only room ever created a batch has been emitted whose image is not
\* the one the deck holds at its index
C32_BatchOfEarlierDeck ==
  /\ op = "batch-timer"
  /\ Len(heap) = 1
  /\ LET deck == heap[1].allImages
     IN  /\ out[1].data.batchIndex < Len(deck)
         /\ out[1].data.totalBatches = Len(deck)
         /\ out[1].data.image # deck[out[1].data.batchIndex + 1].image

\* v is the quotient n / d rounded to the nearest integer
RoundsTo(v, n, d) == d > 0 /\ 2 * d * v - d <= 2 * n /\ 2 * n <= 2 * d * v + d

\* C33: after every images-synced the broadcast aggregate progress equals
\* round(100 * (sum over the roster of the acknowledged-batch counts) /
\* (deckLength * playerCount)), and every player's reported synced value is
\* the size of the player's acknowledged set, with total the deck length.
C33_ProgressIsRoundedShare ==
  [][op' = "images-synced"
       => \A k \in DOMAIN out' :
            out'[k].ev = "sync-progress"
              => \A ref \in DOMAIN heap' :
                   (~Unregistered(ref)' /\ heap'[ref].id = out'[k].room)
                     => LET room == heap'[ref]
                            sent == out'[k].data
                        IN  /\ ~sent.progress.nan /\ ~sent.progress.inf
                            /\ RoundsTo(sent.progress.value, 100 * SumSynced(room, 1),
                                        Len(room.allImages) * Len(room.players))
                            /\ Len(sent.playerProgress) = Len(room.players)
                            /\ \A i \in DOMAIN room.players :
                                  /\ sent.playerProgress[i].id = room.players[i].id
                                  /\ sent.playerProgress[i].synced =
                                       Synced(room, room.players[i].id)
                                  /\ sent.playerProgress[i].total = Len(room.allImages)]_vars

\* An images-synced has broadcast a progress that is not a number: the deck
\* of the room is empty
C33_ProgressNotANumber ==
  /\ op = "images-synced"
  /\ \E k \in DOMAIN out :
        /\ out[k].ev = "sync-progress"
        /\ out[k].data.progress.nan \/ out[k].data.progress.inf
        /\ \E room \in RoomOf(out[k].room) : room.allImages = <<>>

\* C34: each round of a game is resolved at most once: round-results is
\* broadcast at most once for a round index and at most one round-advance timer
\* is armed, so a guess submitted again during the display delay does not score
\* the round a second time, and no cumulative score exceeds 100 times the
\* number of rounds resolved so far in the game.
C34_RoundResolvedOnce ==
  [][/\ \A ref \in DOMAIN heap' :
          /\ Cardinality({k \in DOMAIN advanceTimers' : advanceTimers'[k].room = ref}) <= 1
          /\ \A i \in DOMAIN heap'[ref].players :
                heap'[ref].players[i].score
                  <= PointsPerGuess * (heap'[ref].currentImageIndex + 1)
     /\ op' = "submit-guess"
          => \A ref \in DOMAIN heap :
               (\E k \in DOMAIN out' :
                   out'[k].ev = "round-results" /\ out'[k].room = heap[ref].id)
                 => ~\E k \in DOMAIN advanceTimers : advanceTimers[k].room = ref]_vars

\* A game has ended with a player holding more points than the deck has rounds
C34_MorePointsThanRounds ==
  \E room \in Registered :
    /\ room.gameState = GAME_OVER
    /\ \E i \in DOMAIN room.players :
          room.players[i].score > PointsPerGuess * Len(room.allImages)

\* C35: syncComplete is never true while the deck is empty, and gameState is
\* never PLAYING with an empty deck: an images-synced that arrives before any
\* deck was built, or after new-game cleared it, records no completion.
C35_NoCompletionWithoutDeck ==
  \A room \in Registered :
    room.allImages = <<>> => ~room.syncComplete /\ room.gameState # PLAYING

\* An images-synced has recorded the completion of a room in which nobody has
\* submitted an image
C35_CompleteBeforeAnySet ==
  /\ op = "images-synced"
  /\ \E room \in Registered :
        /\ Broadcast("sync-complete", room.id)
        /\ room.syncComplete
        /\ room.gameState = LOBBY
        /\ room.allImages = <<>>
        /\ \A i \in DOMAIN room.players : room.players[i].imageCount = 0

\* The player has acknowledged every batch index of the deck of the room
AcknowledgedDeck(room, pid) ==
  /\ pid \in DOMAIN room.syncProgress
  /\ \A b \in 0..(Len(room.allImages) - 1) : b \in room.syncProgress[pid]

\* C36: whenever start-game succeeds, every player of the roster has
\* imageCount = 10 (here lim.ready) and has acknowledged every batch index of
\* the current deck; a player who joined after completion was recorded, or a
\* deck rebuilt after it, holds the start back until the sync is complete again.
C36_StartOnlyWhenAllSynced ==
  [][\A s \in connected, c \in Codes :
       (StartGame(s, c) /\ StartSucceeded')
         => LET room == heap'[Lookup(c)]
            IN  \A k \in DOMAIN room.players :
                  /\ room.players[k].imageCount = lim.ready
                  /\ AcknowledgedDeck(room, room.players[k].id)]_vars

\* A game has started on a deck of two full sets while a player who has
\* submitted a set has not acknowledged all of it
C36_StartedOnRebuiltDeck ==
  /\ op = "start-game" /\ StartSucceeded
  /\ \E room \in Registered :
        /\ room.gameState = PLAYING
        /\ Len(room.players) = 2
        /\ Len(room.allImages) = 2 * lim.ready
        /\ \A k \in DOMAIN room.players : room.players[k].imageCount = lim.ready
        /\ \E k \in DOMAIN room.players : ~AcknowledgedDeck(room, room.players[k].id)

\* C37: every player's acknowledged-batch set holds only indices of the
\* current deck (0..deckLength - 1), so no synced count exceeds the deck length
\* and the broadcast aggregate progress is always an integer in 0..100.
C37_AcksWithinDeck ==
  /\ \A room \in Registered : \A pid \in DOMAIN room.syncProgress :
        /\ room.syncProgress[pid] \subseteq 0..(Len(room.allImages) - 1)
        /\ Synced(room, pid) <= Len(room.allImages)
  /\ \A k \in DOMAIN out :
        out[k].ev = "sync-progress"
          => /\ ~out[k].data.progress.nan /\ ~out[k].data.progress.inf
             /\ out[k].data.progress.value \in 0..100

\* An images-synced on a room that has a deck has broadcast a progress above
\* 100: a player has acknowledged more batches than the deck holds
C37_ProgressAboveHundred ==
  /\ op = "images-synced"
  /\ \E room \in Registered :
        /\ room.allImages # <<>>
        /\ \E i \in DOMAIN room.players :
              Synced(room, room.players[i].id) > Len(room.allImages)
        /\ \E k \in DOMAIN out :
              /\ out[k].ev = "sync-progress" /\ out[k].room = room.id
              /\ out[k].data.progress.value > 100

\* C38: gameState changes only along LOBBY -> PLAYING (a successful start-game
\* in LOBBY), PLAYING -> GAME_OVER (the advance after the final round) and
\* GAME_OVER -> LOBBY (new-game): start-game while PLAYING or GAME_OVER does
\* not restart the game, and after new-game no round-advance timer left over
\* from the previous game changes gameState or currentImageIndex or broadcasts
\* round-started or game-over.
C38_PhasesInOrder ==
  [][\A ref \in DOMAIN heap :
       LET before == heap[ref]
           after == heap'[ref]
       IN  /\ before.gameState # after.gameState
                => \/ /\ before.gameState = LOBBY /\ after.gameState = PLAYING
                      /\ op' = "start-game"
                   \/ /\ before.gameState = PLAYING /\ after.gameState = GAME_OVER
                      /\ op' = "advance-timer"
                      /\ before.currentImageIndex = Len(before.allImages) - 1
                   \/ /\ before.gameState = GAME_OVER /\ after.gameState = LOBBY
                      /\ op' = "new-game"
           /\ (op' = "start-game" /\ before.gameState # LOBBY) => after = before
           /\ (op' = "advance-timer" /\ before.gameState = LOBBY
                 /\ Head(advanceTimers).room = ref)
                => after = before /\ out' = <<>>]_vars

\* A round-advance timer of the previous game has fired after new-game: the
\* room is GAME_OVER and has no deck
C38_OverAfterNewGame ==
  /\ op = "advance-timer"
  /\ \E room \in Registered :
        /\ room.gameState = GAME_OVER
        /\ room.allImages = <<>>
        /\ Broadcast("game-over", room.id)

\* C39: a submit-guess whose round index differs from currentImageIndex, or
\* that arrives while gameState is not PLAYING, never triggers the resolution
\* of the current round and never changes a score.
C39_StrayGuessIsInert ==
  [][\A s \in connected, c \in Codes, r \in RoundInputs, g \in KnownPids :
       (SubmitGuess(s, c, r, g) /\ Strays(s, c, r))
         => LET before == heap[Lookup(c)]
                after == heap'[Lookup(c)]
            IN  /\ ~\E k \in DOMAIN out' : out'[k].ev = "round-results"
                /\ advanceTimers' = advanceTimers
                /\ \A i \in DOMAIN before.players :
                      after.players[i].score = before.players[i].score]_vars

\* A guess sent after the game was over has resolved the last round again and
\* raised a score
C39_ScoredAfterGameOver ==
  /\ op = "submit-guess"
  /\ \E room \in Registered :
        /\ room.gameState = GAME_OVER
        /\ Broadcast("round-results", room.id)
        /\ \E k \in DOMAIN advanceTimers : advanceTimers[k].room = Lookup(room.id)
        /\ \E i \in DOMAIN room.players : room.players[i].score > 0

-----------------------------------------------------------------------------
(* Departures: a connection creates or joins any number of rooms, one room *)
(* more than once included, and may rejoin as a player created earlier;    *)
(* connections close and the grace timers run out.  LeavePlayers players,  *)
(* LeaveSockets connections, LeaveRooms rooms under either code.           *)

LeavePlayers == 3
LeaveSockets == 2
LeaveRooms == 2

InitLeave ==
  Fresh([players |-> LeavePlayers, sockets |-> LeaveSockets, rooms |-> LeaveRooms,
         ready |-> ScaledSet, random |-> 1, stagger |-> FALSE])

NextLeave ==
  \/ Connect
  \/ \E s \in connected, c \in Drawn : CreateRoom(s, c)
  \/ \E s \in connected, c \in Drawn, n \in Names : JoinRoom(s, c, n)
  \/ \E s \in connected, c \in Drawn, p \in KnownPids : ReconnectToRoom(s, c, p)
  \/ \E s \in connected : Disconnect(s)
  \/ GraceFire

SpecLeave == InitLeave /\ [][NextLeave]_vars

\* setTimeout callbacks run once their delay has passed
SpecLeaveFair == SpecLeave /\ WF_vars(GraceFire)

\* Connections that have been closed
Closed == (1..nextSock) \ connected

\* The rooms of the registry, as references
RegisteredRefs == {rooms[k].ref : k \in DOMAIN rooms}

\* The room under ref is registered and has a player bound to closed connection s
HoldsGone(ref, s) ==
  /\ ref \in RegisteredRefs
  /\ s \in Closed
  /\ FindBySocket(heap[ref].players, s) # 0

\* The room under ref is registered and all its players are bound to closed connections
AllGone(ref) ==
  /\ ref \in RegisteredRefs
  /\ \A i \in DOMAIN heap[ref].players : heap[ref].players[i].socketId \in Closed

\* C40: with the timers firing, a player whose connection closed and who does
\* not rejoin is eventually removed from every room in which that connection
\* was bound to a player, and a room all of whose players are gone for good is
\* eventually deleted from the registry.
C40_GoneForGoodIsRemoved ==
  /\ \A ref \in 1..LeaveRooms, s \in 1..LeaveSockets :
       HoldsGone(ref, s) ~> ~HoldsGone(ref, s)
  /\ \A ref \in 1..LeaveRooms : AllGone(ref) ~> ~AllGone(ref)

\* Every connection is closed and the last grace timer has fired, and a
\* registered room still holds a player of a closed connection.
C40_LeftBehind ==
  /\ op = "grace-timer" /\ graceTimers = <<>>
  /\ connected = {} /\ nextSock = LeaveSockets
  /\ \E ref \in RegisteredRefs, s \in Closed : HoldsGone(ref, s)
====
